---------------------------- MODULE Spec2Model ----------------------------
(***************************************************************************)
(* A model of jfswatch: the snapshot map (WatchedFS), its diff (compare),  *)
(* the command-template substitution (get_command) and the polling loop    *)
(* (watch).                                                                *)
(*                                                                         *)
(* Strings are sequences of one-character strings, so that the regex of    *)
(* get_command can be modelled character by character.  A path is such a   *)
(* sequence.  An mtime is a number of seconds 1..MaxMtime; NoEntry (0)     *)
(* stands for "metadata() returned Err" in the filesystem.                 *)
(***************************************************************************)
EXTENDS Integers, Sequences, FiniteSets, TLC

VARIABLES
    explorers,      \* JFSWatch.explorers: sequence of explorers
    cmd,            \* JFSWatch.cmd: sequence of tokens (each a string)
    fs,             \* the filesystem: path -> mtime, or NoEntry
    prev_fs_watch,  \* watch(): the baseline snapshot
    new_fs_watch,   \* watch(): the snapshot of the running cycle
    idx,            \* explore(): index of the next explorer to run
    pc,             \* position of the control thread
    changed,        \* the FSDifference of the running cycle
    command,        \* result of get_command of the running cycle
    watched_fs,     \* explore(): the snapshot under construction
    outcome,        \* how run_command ended in the running cycle
    runs,           \* history: run_command calls in the running cycle
    snaps,          \* history: snapshots completed so far (saturates)
    snap_last,      \* history: the snapshot completed last
    snap_prev,      \* history: the snapshot completed before snap_last
    missed,         \* history: paths that differed but were not reported
    kept,           \* history: paths present since watch() started
    ever_ran,       \* history: run_command was called at least once
    interval,       \* JFSWatch.interval (JFSWatch::new: its argument)
    sleep,          \* JFSWatch.sleep (JFSWatch::new: its argument)
    events,         \* history: what the running cycle has done, in order
    jfs,            \* result of JFSWatch::new
    pattern,        \* from_pattern: the extended glob pattern
    scanned,        \* from_pattern: characters of the pattern read so far
    builder,        \* the ExtendedGlobPatternBuilder
    patterns,       \* result of build()
    overflow_checks \* the build panics on integer overflow (debug profile)

vars == <<explorers, cmd, fs, prev_fs_watch, new_fs_watch, idx, pc, changed,
          command, watched_fs, outcome, runs, snaps, snap_last, snap_prev,
          missed, kept, ever_ran, interval, sleep, events, jfs, pattern,
          scanned, builder, patterns, overflow_checks>>

(* The state of the calls modelled on their own (JFSWatch::new and the     *)
(* pattern builder), which watch() does not touch.                         *)
call_vars == <<jfs, pattern, scanned, builder, patterns, overflow_checks>>

---------------------------------------------------------------------------
(* Bounds *)

MaxMtime == 2

MaxPieces == 3

MaxSnaps == 2

NoEntry == 0

Mtimes == 1..MaxMtime

(* Paths of the loop model and of the compare model. *)
WatchPaths == { <<"p">>, <<"q">> }

ComparePaths == { <<"p">>, <<"q">>, <<"r">> }

NoPath == <<>>

---------------------------------------------------------------------------
(* WatchedFS: a map path -> mtime *)

EmptyFS == [x \in {} |-> NoEntry]

(* WatchedFS::new handing out the baseline map again *)
new_from_baseline(size) == prev_fs_watch

(* WatchedFS::new: an empty map (the capacity is only a hint). *)
new(size) == EmptyFS

(* found with HashMap::entry(..).or_insert: an existing entry is kept *)
found_keep_first(w, path, mtime) ==
    [x \in (DOMAIN w) \cup {path} |-> IF x \in DOMAIN w THEN w[x] ELSE mtime]

(* WatchedFS::found: HashMap::insert, which replaces an existing entry. *)
found(w, path, mtime) ==
    [x \in (DOMAIN w) \cup {path} |-> IF x = path THEN mtime ELSE w[x]]

(* WatchedFS::len *)
len(w) == Cardinality(DOMAIN w)

(* WatchedFS::find: reads the metadata of the path and records it when    *)
(* that succeeds; contributes nothing when it fails.                      *)
find(w, path, filesystem) ==
    IF path \in DOMAIN filesystem /\ filesystem[path] # NoEntry
    THEN found(w, path, filesystem[path])
    ELSE w

(* FSDifference *)
Unchanged == [kind |-> "Unchanged", path |-> NoPath, mtime |-> NoEntry]

Modified(path, mtime) == [kind |-> "Modified", path |-> path, mtime |-> mtime]

New(path, mtime) == [kind |-> "New", path |-> path, mtime |-> mtime]

Deleted(path) == [kind |-> "Deleted", path |-> path, mtime |-> NoEntry]

(* The iteration orders a HashMap with key set S can have. *)
Orders(S) ==
    { o \in [1..Cardinality(S) -> S] :
        \A i, j \in 1..Cardinality(S) : i # j => o[i] # o[j] }

(* `mtime != &prev_mtime` *)
mtime_newer_only(mtime, prev_mtime) == mtime > prev_mtime

mtime_differs(mtime, prev_mtime) == mtime # prev_mtime

(* The second loop of compare: the first entry left in prev_fs.paths, in  *)
(* its iteration order.                                                    *)
compare_deleted(remaining, prev_order) ==
    IF remaining = {} THEN Unchanged
    ELSE LET first == CHOOSE i \in 1..Len(prev_order) :
                        /\ prev_order[i] \in remaining
                        /\ \A j \in 1..(i-1) : prev_order[j] \notin remaining
         IN Deleted(prev_order[first])

(* The first loop of compare, from entry i of the iteration order of      *)
(* self.paths; remaining is the key set of prev_fs.paths after the        *)
(* remove_entry calls made so far.                                         *)
RECURSIVE compare_keep_entries(_, _, _, _, _, _)
compare_keep_entries(cur, prev, remaining, cur_order, prev_order, i) ==
    IF i > Len(cur_order) THEN compare_deleted(remaining, prev_order)
    ELSE LET path == cur_order[i]
             mtime == cur[path]
         IN IF path \in remaining
            THEN IF mtime_differs(mtime, prev[path])
                 THEN Modified(path, mtime)
                 ELSE compare_keep_entries(cur, prev, remaining,
                                           cur_order, prev_order, i + 1)
            ELSE New(path, mtime)

RECURSIVE compare_scan(_, _, _, _, _, _)
compare_scan(cur, prev, remaining, cur_order, prev_order, i) ==
    IF i > Len(cur_order) THEN compare_deleted(remaining, prev_order)
    ELSE LET path == cur_order[i]
             mtime == cur[path]
         IN IF path \in remaining
            THEN IF mtime_differs(mtime, prev[path])
                 THEN Modified(path, mtime)
                 ELSE compare_scan(cur, prev, remaining \ {path},
                                   cur_order, prev_order, i + 1)
            ELSE New(path, mtime)

(* compare with the two loops in the other order *)
compare_deleted_first(cur, prev, cur_order, prev_order) ==
    IF (DOMAIN prev) \ (DOMAIN cur) # {}
    THEN compare_deleted((DOMAIN prev) \ (DOMAIN cur), prev_order)
    ELSE compare_scan(cur, prev, DOMAIN prev, cur_order, prev_order, 1)

(* WatchedFS::compare(&self, prev_fs), for one iteration order of each map *)
compare(cur, prev, cur_order, prev_order) ==
    compare_scan(cur, prev, DOMAIN prev, cur_order, prev_order, 1)

(* self.paths after a compare that took its entries out as it matched     *)
(* them, the way it takes them out of prev_fs.paths                       *)
self_drained_by_compare(cur, prev) ==
    [x \in { y \in DOMAIN cur : y \notin DOMAIN prev \/ cur[y] # prev[y] }
        |-> cur[x]]

(* self.paths after compare(&self, prev_fs): the call borrows self        *)
(* immutably and iterates over &self.paths; remove_entry is called on      *)
(* prev_fs.paths only.                                                     *)
self_after_compare(cur, prev) == cur

(* The snapshots over a set of paths. *)
Snapshots(P) ==
    UNION { [D -> Mtimes] : D \in SUBSET P }

(* The paths on which two snapshots differ. *)
Differing(cur, prev) ==
    { x \in (DOMAIN cur) \cup (DOMAIN prev) :
        \/ x \notin DOMAIN cur
        \/ x \notin DOMAIN prev
        \/ cur[x] # prev[x] }

---------------------------------------------------------------------------
(* get_command: the command template and its substitution *)

(* Vec<String>::join(sep) *)
RECURSIVE join(_, _)
join(tokens, sep) ==
    IF Len(tokens) = 0 THEN <<>>
    ELSE IF Len(tokens) = 1 THEN tokens[1]
    ELSE tokens[1] \o sep \o join(Tail(tokens), sep)

Digit(n) == << <<"0">>, <<"1">>, <<"2">>, <<"3">>, <<"4">>,
               <<"5">>, <<"6">>, <<"7">>, <<"8">>, <<"9">> >>[n + 1]

(* mtime.format(LOCAL_DATE_FORMAT), "%Y-%m-%d %H:%M:%S%.3f": an mtime of  *)
(* t seconds after the epoch, t < 60, written in the zone of offset 0.    *)
format_mtime(t) ==
    <<"1","9","7","0","-","0","1","-","0","1"," ","0","0",":","0","0",":">>
    \o Digit(t \div 10) \o Digit(t % 10) \o <<".","0","0","0">>

(* The names the substitution pattern accepts after the dollar sign. *)
TargetDiff == <<"d","i","f","f">>

TargetPath == <<"p","a","t","h">>

TargetMtime == <<"m","t","i","m","e">>

Targets == { TargetDiff, TargetPath, TargetMtime }

HasAt(s, i, w) ==
    /\ i >= 1
    /\ i + Len(w) - 1 <= Len(s)
    /\ SubSeq(s, i, i + Len(w) - 1) = w

(* Length of the match of  \$(\{(diff|path|mtime)\}|diff|path|mtime)      *)
(* that starts at position i of s; 0 when there is none.                   *)
target_len_at(s, i) ==
    IF \E t \in Targets : HasAt(s, i, <<"$", "{">> \o t \o <<"}">>)
    THEN Len(CHOOSE t \in Targets : HasAt(s, i, <<"$", "{">> \o t \o <<"}">>)) + 3
    ELSE IF \E t \in Targets : HasAt(s, i, <<"$">> \o t)
    THEN Len(CHOOSE t \in Targets : HasAt(s, i, <<"$">> \o t)) + 1
    ELSE 0

(* Length of the match of substitution_pattern,                            *)
(*   .?\$(\{(diff|path|mtime)\}|diff|path|mtime)                           *)
(* that starts at position i; 0 when there is none.  The greedy .? takes   *)
(* one character other than a line feed when the rest then matches.        *)
match_len_at(s, i) ==
    IF i <= Len(s) /\ s[i] # "\n" /\ target_len_at(s, i + 1) > 0
    THEN 1 + target_len_at(s, i + 1)
    ELSE target_len_at(s, i)

(* str::trim_matches(chars): strips the characters of the set from both    *)
(* ends.                                                                   *)
trim_matches(s, chars) ==
    LET keep == { i \in 1..Len(s) : s[i] \notin chars }
    IN IF keep = {} THEN <<>>
       ELSE SubSeq(s, CHOOSE i \in keep : \A j \in keep : i <= j,
                      CHOOSE i \in keep : \A j \in keep : j <= i)

TrimChars == { "{", "}", " ", "$" }

DiffWord(diff) ==
    CASE diff.kind = "Modified" -> <<"m","o","d","i","f","i","e","d">>
      [] diff.kind = "New"      -> <<"n","e","w">>
      [] diff.kind = "Deleted"  -> <<"d","e","l","e","t","e","d">>

Ok(s) == [panic |-> FALSE, out |-> s]

Panicked == [panic |-> TRUE, out |-> <<>>]

(* The closure given to replace_all, applied to one match m (caps[0]). *)
replacement(m, diff) ==
    LET first_char == m[1]
        target == trim_matches(m, TrimChars)
    IN IF first_char = "\\" THEN Ok(Tail(m))
       ELSE IF target = TargetDiff THEN Ok(<<first_char>> \o DiffWord(diff))
       ELSE IF target = TargetPath THEN Ok(<<first_char>> \o diff.path)
       ELSE IF target = TargetMtime
            THEN IF diff.kind = "Deleted"
                 THEN Ok(<<first_char>> \o Tail(m))
                 ELSE Ok(<<first_char>> \o format_mtime(diff.mtime))
       ELSE Panicked

(* The single element of a one-element set. *)
TheOnly(S) == CHOOSE x \in S : TRUE

(* Regex::replace_all: the non-overlapping matches from the left, each     *)
(* replaced by the closure's result; the text between them is copied.      *)
(* out is the text built so far; a panic of the closure ends the call.     *)
(* (The match length and the replacement are bound as values, so that      *)
(* each is computed once per position.)                                    *)
RECURSIVE replace_all(_, _, _, _)
replace_all(s, i, diff, out) ==
    IF i > Len(s) THEN Ok(out)
    ELSE TheOnly({
           IF n = 0
           THEN replace_all(s, i + 1, diff, Append(out, s[i]))
           ELSE TheOnly({ IF r.panic THEN Panicked
                          ELSE replace_all(s, i + n, diff, out \o r.out) :
                          r \in { replacement(SubSeq(s, i, i + n - 1), diff) } })
           : n \in { match_len_at(s, i) } })

None == [kind |-> "None", text |-> <<>>]

Some(s) == [kind |-> "Some", text |-> s]

Panic == [kind |-> "Panic", text |-> <<>>]

(* get_command with the substituted text scanned a second time *)
get_command_rescan(tokens, diff) ==
    IF diff.kind = "Unchanged" THEN None
    ELSE LET r == replace_all(join(tokens, <<" ">>), 1, diff, <<>>)
         IN IF r.panic THEN Panic
            ELSE LET r2 == replace_all(r.out, 1, diff, <<>>)
                 IN IF r2.panic THEN Panic ELSE Some(r2.out)

(* JFSWatch::get_command *)
get_command(tokens, diff) ==
    IF diff.kind = "Unchanged" THEN None
    ELSE LET r == replace_all(join(tokens, <<" ">>), 1, diff, <<>>)
         IN IF r.panic THEN Panic ELSE Some(r.out)

---------------------------------------------------------------------------
(* Explorers *)

Exact(path) == [kind |-> "exact", path |-> path]

(* ExactExplorer::explore recording the path whether or not it was read *)
exact_explore_unchecked(explorer, w, filesystem) ==
    found(w, explorer.path, filesystem[explorer.path])

(* ExactExplorer::explore *)
exact_explore(explorer, w, filesystem) == find(w, explorer.path, filesystem)

(* Explorer::explore, dispatched on the variant *)
explorer_explore(explorer, w, filesystem) ==
    exact_explore(explorer, w, filesystem)

(* The explorer lists the loop model is run with. *)
ExplorerConfigs ==
    { << Exact(<<"p">>) >>,
      << Exact(<<"p">>), Exact(<<"q">>) >>,
      << Exact(<<"q">>), Exact(<<"q">>) >> }

(* The command templates the loop model is run with:  r ,  r $path  and    *)
(* r:$diff .                                                               *)
WatchCmds ==
    { << <<"r">> >>,
      << <<"r">>, <<"$","p","a","t","h">> >>,
      << <<"r",":","$","d","i","f","f">> >> }

---------------------------------------------------------------------------
(* The polling loop: JFSWatch::watch *)

Min(a, b) == IF a < b THEN a ELSE b

(* `prev_fs_watch = new_fs_watch` at the end of the loop body *)
keep_baseline(new_fs, prev_fs) == prev_fs

carry_forward(new_fs, prev_fs) == new_fs

(* `let mut prev_fs_watch = self.explore(None)` *)
empty_baseline(explored) == EmptyFS

initial_baseline(explored) == explored

(* What a cycle does, as recorded in events: a step of the loop, or a      *)
(* sleep with its duration.                                                *)
Event(name) == [ev |-> name, d |-> 0]

Slept(duration) == [ev |-> "sleep", d |-> duration]

(* `sleep(self.interval)` of the Unchanged arm *)
unchanged_sleep(jfs_interval, jfs_sleep) == jfs_interval

(* `sleep(self.sleep)` after run_command *)
triggered_sleep_interval(jfs_interval, jfs_sleep) == jfs_interval

triggered_sleep(jfs_interval, jfs_sleep) == jfs_sleep

(* run_command: where the control thread is after `.status()` was called:  *)
(* waiting for the child, or, when the launch failed, back in watch() with *)
(* the error logged.                                                       *)
after_status_unwrap(launched) ==
    IF launched THEN "command_running" ELSE "panicked"

after_status_no_wait(launched) == "sleep_sleep"

after_status(launched) ==
    IF launched THEN "command_running" ELSE "sleep_sleep"

(* The durations the loop model is run with (seconds); the loop only       *)
(* hands them to sleep().                                                  *)
WatchDurations == { <<1, 2>> }

(* The calls modelled on their own, not made. *)
NotCalled == [kind |-> "NotCalled"]

NoCalls ==
    /\ jfs = NotCalled
    /\ pattern = <<>>
    /\ scanned = 0
    /\ builder = NotCalled
    /\ patterns = NotCalled
    /\ overflow_checks = FALSE

Init ==
    /\ explorers \in ExplorerConfigs
    /\ cmd \in WatchCmds
    /\ fs \in [WatchPaths -> 0..MaxMtime]
    /\ prev_fs_watch = EmptyFS
    /\ new_fs_watch = EmptyFS
    /\ watched_fs = EmptyFS
    /\ idx = 1
    /\ pc = "explore_initial"
    /\ changed = Unchanged
    /\ command = None
    /\ outcome = "none"
    /\ runs = 0
    /\ snaps = 0
    /\ snap_last = EmptyFS
    /\ snap_prev = EmptyFS
    /\ missed = {}
    /\ kept = { x \in WatchPaths : fs[x] # NoEntry }
    /\ ever_ran = FALSE
    /\ \E d \in WatchDurations : interval = d[1] /\ sleep = d[2]
    /\ events = <<>>
    /\ NoCalls

(* One explorer of JFSWatch::explore; the first starts from               *)
(* WatchedFS::new, the last returns the snapshot to watch().               *)
Explore ==
    /\ pc \in {"explore_initial", "explore"}
    /\ LET start == IF idx = 1 THEN new(Len(explorers)) ELSE watched_fs
           w == explorer_explore(explorers[idx], start, fs)
       IN IF idx < Len(explorers)
          THEN /\ watched_fs' = w
               /\ idx' = idx + 1
               /\ UNCHANGED <<pc, prev_fs_watch, new_fs_watch, snaps,
                              snap_last, snap_prev>>
          ELSE /\ watched_fs' = EmptyFS
               /\ idx' = 1
               /\ snaps' = Min(snaps + 1, MaxSnaps)
               /\ snap_last' = w
               /\ snap_prev' = snap_last
               /\ IF pc = "explore_initial"
                  THEN /\ prev_fs_watch' = initial_baseline(w)
                       /\ pc' = "sleep_initial"
                       /\ UNCHANGED new_fs_watch
                  ELSE /\ new_fs_watch' = w
                       /\ pc' = "compare"
                       /\ UNCHANGED prev_fs_watch
    /\ runs' = IF pc = "explore" /\ idx = 1 THEN 0 ELSE runs
    /\ outcome' = IF pc = "explore" /\ idx = 1 THEN "none" ELSE outcome
    /\ UNCHANGED <<explorers, cmd, fs, changed, command, missed, kept, ever_ran>>
    /\ LET base == IF pc = "explore" /\ idx = 1 THEN <<>> ELSE events
       IN events' = IF idx < Len(explorers) THEN base
                    ELSE Append(base, Event("snapshot"))
    /\ UNCHANGED <<interval, sleep, call_vars>>

(* `sleep(self.interval)` after the initial snapshot *)
SleepInitial ==
    /\ pc = "sleep_initial"
    /\ pc' = "explore"
    /\ UNCHANGED <<explorers, cmd, fs, prev_fs_watch, new_fs_watch, idx,
                   changed, command, watched_fs, outcome, runs, snaps,
                   snap_last, snap_prev, missed, kept, ever_ran>>
    /\ events' = Append(events, Slept(interval))
    /\ UNCHANGED <<interval, sleep, call_vars>>

(* `match new_fs_watch.compare(prev_fs_watch)` *)
Compare ==
    /\ pc = "compare"
    /\ \E cur_order \in Orders(DOMAIN new_fs_watch),
          prev_order \in Orders(DOMAIN prev_fs_watch) :
          /\ changed' = compare(new_fs_watch, prev_fs_watch,
                                cur_order, prev_order)
          /\ new_fs_watch' = self_after_compare(new_fs_watch, prev_fs_watch)
    /\ pc' = IF changed'.kind = "Unchanged" THEN "sleep_interval"
             ELSE "get_command"
    /\ missed' = (missed \cup Differing(new_fs_watch, prev_fs_watch))
                    \ {changed'.path}
    /\ UNCHANGED <<explorers, cmd, fs, prev_fs_watch, idx,
                   command, watched_fs, outcome, runs, snaps, snap_last,
                   snap_prev, kept, ever_ran>>
    /\ events' = Append(events, Event("compare"))
    /\ UNCHANGED <<interval, sleep, call_vars>>

(* `sleep(self.interval)` of the Unchanged arm *)
SleepInterval ==
    /\ pc = "sleep_interval"
    /\ pc' = "assign"
    /\ UNCHANGED <<explorers, cmd, fs, prev_fs_watch, new_fs_watch, idx,
                   changed, command, watched_fs, outcome, runs, snaps,
                   snap_last, snap_prev, missed, kept, ever_ran>>
    /\ events' = Append(events, Slept(unchanged_sleep(interval, sleep)))
    /\ UNCHANGED <<interval, sleep, call_vars>>

(* `let command = self.get_command(&changed).unwrap()`: a panic inside     *)
(* get_command ends the process.                                           *)
GetCommand ==
    /\ pc = "get_command"
    /\ command' = get_command(cmd, changed)
    /\ pc' = IF command'.kind = "Some" THEN "run_command" ELSE "panicked"
    /\ UNCHANGED <<explorers, cmd, fs, prev_fs_watch, new_fs_watch, idx,
                   changed, watched_fs, outcome, runs, snaps, snap_last,
                   snap_prev, missed, kept, ever_ran>>
    /\ UNCHANGED events
    /\ UNCHANGED <<interval, sleep, call_vars>>

(* run_command: the shell is spawned, or the launch fails and is logged. *)
RunCommand ==
    /\ pc = "run_command"
    /\ runs' = runs + 1
    /\ ever_ran' = TRUE
    /\ \E launched \in BOOLEAN :
          /\ pc' = after_status(launched)
          /\ outcome' = IF launched THEN "running" ELSE "launch_error"
          /\ events' = Append(events, Event(IF launched THEN "command_start"
                                                        ELSE "launch_error"))
    /\ UNCHANGED <<explorers, cmd, fs, prev_fs_watch, new_fs_watch, idx,
                   changed, command, watched_fs, snaps, snap_last, snap_prev,
                   missed, kept>>
    /\ UNCHANGED <<interval, sleep, call_vars>>

(* run_command: `.status()` returns when the child has exited. *)
CommandExit ==
    /\ pc = "command_running"
    /\ \E status \in {"exit_zero", "exit_nonzero"} : outcome' = status
    /\ pc' = "sleep_sleep"
    /\ UNCHANGED <<explorers, cmd, fs, prev_fs_watch, new_fs_watch, idx,
                   changed, command, watched_fs, runs, snaps, snap_last,
                   snap_prev, missed, kept, ever_ran>>
    /\ events' = Append(events, Event("command_end"))
    /\ UNCHANGED <<interval, sleep, call_vars>>

(* `sleep(self.sleep)` after the command *)
SleepSleep ==
    /\ pc = "sleep_sleep"
    /\ pc' = "assign"
    /\ UNCHANGED <<explorers, cmd, fs, prev_fs_watch, new_fs_watch, idx,
                   changed, command, watched_fs, outcome, runs, snaps,
                   snap_last, snap_prev, missed, kept, ever_ran>>
    /\ events' = Append(events, Slept(triggered_sleep(interval, sleep)))
    /\ UNCHANGED <<interval, sleep, call_vars>>

(* `prev_fs_watch = new_fs_watch;` and back to the head of the loop *)
Assign ==
    /\ pc = "assign"
    /\ prev_fs_watch' = carry_forward(new_fs_watch, prev_fs_watch)
    /\ pc' = "explore"
    /\ UNCHANGED <<explorers, cmd, fs, new_fs_watch, idx, changed, command,
                   watched_fs, outcome, runs, snaps, snap_last, snap_prev,
                   missed, kept, ever_ran>>
    /\ UNCHANGED events
    /\ UNCHANGED <<interval, sleep, call_vars>>

LoopPcs ==
    {"explore_initial", "sleep_initial", "explore", "compare",
     "sleep_interval", "get_command", "run_command", "command_running",
     "sleep_sleep", "assign"}

(* The filesystem, changed by anyone (the command included) while the      *)
(* process lives: a path is created or its mtime is set, or it is removed. *)
FsWrite ==
    /\ pc \in LoopPcs
    /\ \E x \in WatchPaths, t \in Mtimes :
          /\ fs[x] # t
          /\ fs' = [fs EXCEPT ![x] = t]
    /\ UNCHANGED <<explorers, cmd, prev_fs_watch, new_fs_watch, idx, pc,
                   changed, command, watched_fs, outcome, runs, snaps,
                   snap_last, snap_prev, missed, kept, ever_ran>>
    /\ UNCHANGED events
    /\ UNCHANGED <<interval, sleep, call_vars>>

FsDelete ==
    /\ pc \in LoopPcs
    /\ \E x \in WatchPaths :
          /\ fs[x] # NoEntry
          /\ fs' = [fs EXCEPT ![x] = NoEntry]
          /\ kept' = kept \ {x}
    /\ UNCHANGED <<explorers, cmd, prev_fs_watch, new_fs_watch, idx, pc,
                   changed, command, watched_fs, outcome, runs, snaps,
                   snap_last, snap_prev, missed, ever_ran>>
    /\ UNCHANGED events
    /\ UNCHANGED <<interval, sleep, call_vars>>

Step ==
    \/ Explore
    \/ SleepInitial
    \/ Compare
    \/ SleepInterval
    \/ GetCommand
    \/ RunCommand
    \/ CommandExit
    \/ SleepSleep
    \/ Assign

Next ==
    \/ Step
    \/ FsWrite
    \/ FsDelete

Spec == Init /\ [][Next]_vars

(* The control thread always takes its next step: sleeps end, and the      *)
(* command returns; the filesystem need not change.                        *)
FairSpec == Init /\ [][Next]_vars /\ WF_vars(Step)

---------------------------------------------------------------------------
(* WatchedFS::compare applied to every pair of snapshots over ComparePaths *)

Idle ==
    /\ explorers = << Exact(<<"p">>) >>
    /\ fs = EmptyFS
    /\ watched_fs = EmptyFS
    /\ idx = 1
    /\ outcome = "none"
    /\ runs = 0
    /\ snaps = 0
    /\ snap_last = EmptyFS
    /\ snap_prev = EmptyFS
    /\ missed = {}
    /\ kept = {}
    /\ ever_ran = FALSE
    /\ events = <<>>

InitCompare ==
    /\ Idle
    /\ \E d \in WatchDurations : interval = d[1] /\ sleep = d[2]
    /\ NoCalls
    /\ cmd = << <<"r">> >>
    /\ new_fs_watch \in Snapshots(ComparePaths)
    /\ prev_fs_watch \in Snapshots(ComparePaths)
    /\ pc = "compare_input"
    /\ changed = Unchanged
    /\ command = None

CompareCall ==
    /\ pc = "compare_input"
    /\ \E cur_order \in Orders(DOMAIN new_fs_watch),
          prev_order \in Orders(DOMAIN prev_fs_watch) :
          /\ changed' = compare(new_fs_watch, prev_fs_watch,
                                cur_order, prev_order)
          /\ new_fs_watch' = self_after_compare(new_fs_watch, prev_fs_watch)
    /\ pc' = "compare_done"
    /\ UNCHANGED <<explorers, cmd, fs, prev_fs_watch, idx,
                   command, watched_fs, outcome, runs, snaps, snap_last,
                   snap_prev, missed, kept, ever_ran>>
    /\ UNCHANGED events
    /\ UNCHANGED <<interval, sleep, call_vars>>

NextCompare == CompareCall

SpecCompare == InitCompare /\ [][NextCompare]_vars

---------------------------------------------------------------------------
(* JFSWatch::get_command applied to bounded templates and differences *)

(* The pieces templates are assembled from: the six placeholders and the   *)
(* characters that can stand before one.                                   *)
Pieces ==
    { <<"$","d","i","f","f">>, <<"$","{","d","i","f","f","}">>,
      <<"$","p","a","t","h">>, <<"$","{","p","a","t","h","}">>,
      <<"$","m","t","i","m","e">>, <<"$","{","m","t","i","m","e","}">>,
      <<"\\">>, <<" ">>, <<"x">>, <<"{">>, <<"$">>, <<"\n">> }

RECURSIVE Concat(_)
Concat(ss) == IF Len(ss) = 0 THEN <<>> ELSE ss[1] \o Concat(Tail(ss))

PieceSeqs == UNION { [1..n -> Pieces] : n \in 0..MaxPieces }

(* Each sequence of pieces as one token, and with its first piece as a     *)
(* token of its own.                                                       *)
CmdInputs ==
    { << Concat(ps) >> : ps \in PieceSeqs }
    \cup { << ps[1], Concat(Tail(ps)) >> : ps \in PieceSeqs \ { <<>> } }

DiffInputs ==
    { Unchanged, New(<<"p">>, 1), Modified(<<"p">>, MaxMtime), Deleted(<<"p">>) }

InitCmd ==
    /\ Idle
    /\ \E d \in WatchDurations : interval = d[1] /\ sleep = d[2]
    /\ NoCalls
    /\ cmd \in CmdInputs
    /\ changed \in DiffInputs
    /\ new_fs_watch = EmptyFS
    /\ prev_fs_watch = EmptyFS
    /\ pc = "command_input"
    /\ command = None

GetCommandCall ==
    /\ pc = "command_input"
    /\ command' = get_command(cmd, changed)
    /\ pc' = "command_done"
    /\ UNCHANGED <<explorers, cmd, fs, prev_fs_watch, new_fs_watch, idx,
                   changed, watched_fs, outcome, runs, snaps, snap_last,
                   snap_prev, missed, kept, ever_ran>>
    /\ UNCHANGED events
    /\ UNCHANGED <<interval, sleep, call_vars>>

NextCmd == GetCommandCall

SpecCmd == InitCmd /\ [][NextCmd]_vars

---------------------------------------------------------------------------
(* JFSWatch::get_command applied to differences whose path holds           *)
(* placeholder text                                                        *)

MaxSubstPieces == 2

SubstPieceSeqs == UNION { [1..n -> Pieces] : n \in 0..MaxSubstPieces }

SubstCmdInputs ==
    { << Concat(ps) >> : ps \in SubstPieceSeqs }
    \cup { << ps[1], Concat(Tail(ps)) >> : ps \in SubstPieceSeqs \ { <<>> } }

(* Paths of changed entries: file names may hold any character. *)
SubstPaths ==
    { <<"p">>, <<"$","d","i","f","f">>, <<"$","p","a","t","h">>,
      <<"$","{","m","t","i","m","e","}">>, <<"\\">>,
      <<"\\","$","p","a","t","h">>, <<"a","$","d","i","f","f">> }

SubstDiffInputs ==
    { Unchanged }
    \cup { New(p, 1) : p \in SubstPaths }
    \cup { Modified(p, MaxMtime) : p \in SubstPaths }
    \cup { Deleted(p) : p \in SubstPaths }

InitSubst ==
    /\ Idle
    /\ \E d \in WatchDurations : interval = d[1] /\ sleep = d[2]
    /\ NoCalls
    /\ cmd \in SubstCmdInputs
    /\ changed \in SubstDiffInputs
    /\ new_fs_watch = EmptyFS
    /\ prev_fs_watch = EmptyFS
    /\ pc = "command_input"
    /\ command = None

NextSubst == GetCommandCall

SpecSubst == InitSubst /\ [][NextSubst]_vars

---------------------------------------------------------------------------
(* JFSWatch::new applied to bounded arguments *)

MaxSeconds == 2

(* f32: a finite number of seconds, a NaN, or positive infinity. *)
Finite(n) == [class |-> "finite", n |-> n]

NaN == [class |-> "nan", n |-> 0]

Infinity == [class |-> "inf", n |-> 0]

F32Inputs == { Finite(n) : n \in -1..MaxSeconds } \cup { NaN, Infinity }

(* `x <= 0.0` on f32: false for a NaN and for positive infinity. *)
le_zero(x) == x.class = "finite" /\ x.n <= 0

(* Duration::from_secs_f32 panics when the value is negative, not finite   *)
(* or too large for a Duration.                                            *)
from_secs_f32_panics(x) == x.class # "finite" \/ x.n < 0

NewErr(message) == [kind |-> "Err", message |-> message]

NewOk(e, c, i, s) ==
    [kind |-> "Ok", explorers |-> e, cmd |-> c, interval |-> i, sleep |-> s]

NewPanic == [kind |-> "Panic"]

(* JFSWatch::new *)
JFSWatch_new(new_explorers, new_interval, new_sleep, new_cmd) ==
    IF Len(new_cmd) = 0 THEN NewErr("No command was given")
    ELSE IF le_zero(new_interval)
    THEN NewErr("Interval must be a positive number of seconds")
    ELSE IF le_zero(new_sleep)
    THEN NewErr("Sleep must be a positive number of seconds")
    ELSE IF Len(new_explorers) = 0 THEN NewErr("Empty path discovery list")
    ELSE IF from_secs_f32_panics(new_interval) \/ from_secs_f32_panics(new_sleep)
    THEN NewPanic
    ELSE NewOk(new_explorers, new_cmd, new_interval.n, new_sleep.n)

InitNew ==
    /\ explorers \in { <<>> } \cup ExplorerConfigs
    /\ cmd \in { <<>>, << <<"r">> >> }
    /\ interval \in F32Inputs
    /\ sleep \in F32Inputs
    /\ pc = "new_input"
    /\ jfs = NotCalled
    /\ fs = EmptyFS
    /\ watched_fs = EmptyFS
    /\ new_fs_watch = EmptyFS
    /\ prev_fs_watch = EmptyFS
    /\ changed = Unchanged
    /\ command = None
    /\ idx = 1
    /\ outcome = "none"
    /\ runs = 0
    /\ snaps = 0
    /\ snap_last = EmptyFS
    /\ snap_prev = EmptyFS
    /\ missed = {}
    /\ kept = {}
    /\ ever_ran = FALSE
    /\ events = <<>>
    /\ pattern = <<>>
    /\ scanned = 0
    /\ builder = NotCalled
    /\ patterns = NotCalled
    /\ overflow_checks = FALSE

NewCall ==
    /\ pc = "new_input"
    /\ jfs' = JFSWatch_new(explorers, interval, sleep, cmd)
    /\ pc' = "new_done"
    /\ UNCHANGED <<explorers, cmd, fs, prev_fs_watch, new_fs_watch, idx,
                   changed, command, watched_fs, outcome, runs, snaps,
                   snap_last, snap_prev, missed, kept, ever_ran, interval,
                   sleep, events, pattern, scanned, builder, patterns,
                   overflow_checks>>

NextNew == NewCall

SpecNew == InitNew /\ [][NextNew]_vars

---------------------------------------------------------------------------
(* main: the parsed arguments handed to JFSWatch::new *)

(* Option<f32> of Cli::sleep *)
SomeF32(x) == [opt |-> "Some", value |-> x]

NoneF32 == [opt |-> "None", value |-> Finite(0)]

(* Option::unwrap_or *)
unwrap_or_ignored(option, default) == default

unwrap_or(option, default) ==
    IF option.opt = "Some" THEN option.value ELSE default

(* main, from the check of parsed.cmd to the result of JFSWatch::new *)
main_jfs_result(parsed_explorers, parsed_interval, parsed_sleep, parsed_cmd) ==
    IF Len(parsed_cmd) = 0
    THEN NewErr("A command must be specified. Use -h for more help")
    ELSE JFSWatch_new(parsed_explorers, parsed_interval,
                      unwrap_or(parsed_sleep, parsed_interval), parsed_cmd)

(* interval and sleep hold parsed.interval and parsed.sleep. *)
InitMain ==
    /\ explorers \in { <<>> } \cup ExplorerConfigs
    /\ cmd \in { <<>>, << <<"r">> >> }
    /\ interval \in F32Inputs
    /\ sleep \in { NoneF32 } \cup { SomeF32(x) : x \in F32Inputs }
    /\ pc = "main_input"
    /\ jfs = NotCalled
    /\ fs = EmptyFS
    /\ watched_fs = EmptyFS
    /\ new_fs_watch = EmptyFS
    /\ prev_fs_watch = EmptyFS
    /\ changed = Unchanged
    /\ command = None
    /\ idx = 1
    /\ outcome = "none"
    /\ runs = 0
    /\ snaps = 0
    /\ snap_last = EmptyFS
    /\ snap_prev = EmptyFS
    /\ missed = {}
    /\ kept = {}
    /\ ever_ran = FALSE
    /\ events = <<>>
    /\ pattern = <<>>
    /\ scanned = 0
    /\ builder = NotCalled
    /\ patterns = NotCalled
    /\ overflow_checks = FALSE

MainCall ==
    /\ pc = "main_input"
    /\ jfs' = main_jfs_result(explorers, interval, sleep, cmd)
    /\ pc' = "main_done"
    /\ UNCHANGED <<explorers, cmd, fs, prev_fs_watch, new_fs_watch, idx,
                   changed, command, watched_fs, outcome, runs, snaps,
                   snap_last, snap_prev, missed, kept, ever_ran, interval,
                   sleep, events, pattern, scanned, builder, patterns,
                   overflow_checks>>

NextMain == MainCall

SpecMain == InitMain /\ [][NextMain]_vars

---------------------------------------------------------------------------
(* ExtendedGlobPatternBuilder: extended glob pattern -> basic patterns *)

MaxPatternLen == 5

(* ExtendGlobToken *)
Literal(c) == [kind |-> "Literal", c |-> c, subs |-> <<>>]

Subpatterns(subs) == [kind |-> "Subpatterns", c |-> "", subs |-> subs]

(* ExtendedGlobPatternBuilder::new; panicked marks a builder whose last    *)
(* call panicked.                                                          *)
builder_new ==
    [tokens |-> <<>>, depth |-> 0, escaped |-> FALSE, panicked |-> FALSE]

BuilderPanic(b) == [b EXCEPT !.panicked = TRUE]

Last(seq) == seq[Len(seq)]

Front(seq) == SubSeq(seq, 1, Len(seq) - 1)

(* usize::MAX, the depth after `self.depth -= 1` wrapped at 0; it is only  *)
(* compared with 0 and 1 and incremented, which wraps it back to 0.        *)
UsizeMax == -1

(* push_subpattern_character: the character goes to the last subpattern    *)
(* of the last token, which has to be a Subpatterns token.                 *)
push_subpattern_character(b, c) ==
    IF Len(b.tokens) = 0 THEN BuilderPanic(b)
    ELSE LET last == Last(b.tokens)
         IN IF last.kind = "Subpatterns" /\ Len(last.subs) > 0
            THEN [b EXCEPT !.tokens[Len(b.tokens)] = Subpatterns(
                     Front(last.subs) \o << Append(Last(last.subs), c) >>)]
            ELSE BuilderPanic(b)

(* normal_character *)
normal_character_drop_backslash(b, c) ==
    IF c = "\\" THEN b
    ELSE IF b.depth = 0
    THEN [b EXCEPT !.tokens = Append(b.tokens, Literal(c))]
    ELSE push_subpattern_character(b, c)

normal_character(b, c) ==
    IF b.depth = 0
    THEN [b EXCEPT !.tokens = Append(b.tokens, Literal(c))]
    ELSE push_subpattern_character(b, c)

(* `self.depth == 1` of comma: the comma delimits two subpatterns *)
comma_delimits_nested(depth) == depth >= 1

comma_delimits(depth) == depth = 1

(* comma *)
comma(b) ==
    IF b.depth = 0
    THEN [b EXCEPT !.tokens = Append(b.tokens, Literal(","))]
    ELSE IF comma_delimits(b.depth)
    THEN IF Len(b.tokens) = 0 THEN BuilderPanic(b)
         ELSE LET last == Last(b.tokens)
              IN IF last.kind = "Subpatterns"
                 THEN [b EXCEPT !.tokens[Len(b.tokens)] =
                                    Subpatterns(Append(last.subs, <<>>))]
                 ELSE BuilderPanic(b)
    ELSE push_subpattern_character(b, ",")

(* open_parenthesis that keeps the brace as a literal token *)
open_parenthesis_as_literal(b) ==
    [b EXCEPT !.depth = b.depth + 1,
              !.tokens = Append(b.tokens, Literal("{"))]

(* open_parenthesis; `self.depth += 1` *)
open_parenthesis(b) ==
    LET d == b.depth + 1
        opened == [b EXCEPT !.depth = d]
    IN IF d = 1
       THEN [opened EXCEPT !.tokens = Append(b.tokens, Subpatterns(<< <<>> >>))]
       ELSE push_subpattern_character(opened, "{")

(* The elements of a set in a fixed order. *)
RECURSIVE SeqOf(_)
SeqOf(S) ==
    IF S = {} THEN <<>>
    ELSE LET x == CHOOSE y \in S : TRUE
         IN <<x>> \o SeqOf(S \ {x})

Range(seq) == { seq[i] : i \in 1..Len(seq) }

(* build: the product of the tokens, collected into a HashSet. *)
RECURSIVE build_tokens(_, _)
build_tokens(tokens, i) ==
    IF i = 0 THEN { <<>> }
    ELSE LET before == build_tokens(tokens, i - 1)
             token == tokens[i]
         IN IF token.kind = "Literal"
            THEN { p \o <<token.c>> : p \in before }
            ELSE { p \o sub : p \in before, sub \in Range(token.subs) }

build(b) == build_tokens(b.tokens, Len(b.tokens))

BuildOk(set) == [kind |-> "Ok", set |-> set]

BuildPanic == [kind |-> "Panic", set |-> {}]

(* The loop of close_parenthesis keeping the text of the subpatterns as    *)
(* it was read                                                             *)
keep_subpatterns(subs, n, checks) == { [panic |-> FALSE, list |-> subs] }

RECURSIVE character(_, _, _)
RECURSIVE from_pattern(_, _, _, _)
RECURSIVE expand_subpatterns(_, _, _)

(* from_pattern(pattern).build() of a subpattern: Ok with the set of       *)
(* patterns, or a panic.  (The text of a subpattern closes no group it     *)
(* did not open, so the order in which its own groups list their patterns  *)
(* is not observable; it takes the first the scan offers.)                 *)
from_pattern(s, i, b, checks) ==
    IF b.panicked THEN BuildPanic
    ELSE IF i > Len(s) THEN BuildOk(build(b))
    ELSE from_pattern(s, i + 1,
                      CHOOSE nb \in character(b, s[i], checks) : TRUE, checks)

(* close_parenthesis, the loop over the subpatterns of the group: the      *)
(* patterns of subpatterns 1..n, each subpattern's HashSet in the order    *)
(* it iterates; a panic of a recursive call is a panic of the call.        *)
(* Returned: the lists that can result, which differ in the pattern that   *)
(* comes last.                                                             *)
expand_subpatterns(subs, n, checks) ==
    IF n = 0 THEN { [panic |-> FALSE, list |-> <<>>] }
    ELSE LET sub == from_pattern(subs[n], 1, builder_new, checks)
             before == CHOOSE r \in expand_subpatterns(subs, n - 1, checks) : TRUE
         IN IF sub.kind = "Panic" \/ before.panic
            THEN { [panic |-> TRUE, list |-> <<>>] }
            ELSE { [panic |-> FALSE,
                    list |-> before.list \o SeqOf(sub.set \ {l}) \o <<l>>] :
                   l \in sub.set }

(* close_parenthesis; `self.depth -= 1` panics at depth 0 when the build   *)
(* checks for overflow and wraps to usize::MAX when it does not.           *)
close_parenthesis(b, checks) ==
    IF b.depth = 0 /\ checks THEN { BuilderPanic(b) }
    ELSE LET d == IF b.depth = 0 THEN UsizeMax ELSE b.depth - 1
             closed == [b EXCEPT !.depth = d]
         IN IF d = 0
            THEN IF Len(b.tokens) = 0 THEN { BuilderPanic(closed) }
                 ELSE LET last == Last(b.tokens)
                      IN IF last.kind = "Subpatterns"
                         THEN { IF r.panic THEN BuilderPanic(closed)
                                ELSE [closed EXCEPT !.tokens =
                                         Append(Front(b.tokens),
                                                Subpatterns(r.list))] :
                                r \in expand_subpatterns(last.subs,
                                                         Len(last.subs), checks) }
                         ELSE { BuilderPanic(closed) }
            ELSE { push_subpattern_character(closed, "}") }

(* `'\\\\' =>` of character: the character escapes the one after it *)
escapes_nothing(c) == FALSE

escapes(c) == c = "\\"

(* character: the builders that can result from reading c. *)
character(b, c, checks) ==
    IF b.escaped THEN { normal_character([b EXCEPT !.escaped = FALSE], c) }
    ELSE IF c = "{" THEN { open_parenthesis(b) }
    ELSE IF c = "}" THEN close_parenthesis(b, checks)
    ELSE IF c = "," THEN { comma(b) }
    ELSE IF escapes(c) THEN { normal_character([b EXCEPT !.escaped = TRUE], c) }
    ELSE { normal_character(b, c) }

(* The characters patterns are made of, and the patterns of the tests      *)
(* that the claims quote.                                                  *)
PatternChars == { "{", "}", ",", "\\", "a" }

ExamplePatterns ==
    { <<"a","{","b",",","{","c",",","d","}","}">>,
      <<"{","a",",","b","}","{","1",",","2","}">> }

PatternInputs ==
    UNION { [1..n -> PatternChars] : n \in 0..MaxPatternLen }
    \cup ExamplePatterns

InitBuilder ==
    /\ pattern \in PatternInputs
    /\ overflow_checks \in BOOLEAN
    /\ scanned = 0
    /\ builder = builder_new
    /\ patterns = NotCalled
    /\ pc = "from_pattern"
    /\ jfs = NotCalled
    /\ explorers = <<>>
    /\ cmd = << <<"r">> >>
    /\ \E d \in WatchDurations : interval = d[1] /\ sleep = d[2]
    /\ fs = EmptyFS
    /\ watched_fs = EmptyFS
    /\ new_fs_watch = EmptyFS
    /\ prev_fs_watch = EmptyFS
    /\ changed = Unchanged
    /\ command = None
    /\ idx = 1
    /\ outcome = "none"
    /\ runs = 0
    /\ snaps = 0
    /\ snap_last = EmptyFS
    /\ snap_prev = EmptyFS
    /\ missed = {}
    /\ kept = {}
    /\ ever_ran = FALSE
    /\ events = <<>>

(* One turn of `for c in pattern.chars() { builder.character(c) }` *)
Character ==
    /\ pc = "from_pattern"
    /\ scanned < Len(pattern)
    /\ builder' \in character(builder, pattern[scanned + 1], overflow_checks)
    /\ scanned' = scanned + 1
    /\ pc' = IF builder'.panicked THEN "builder_panicked" ELSE "from_pattern"
    /\ UNCHANGED <<explorers, cmd, fs, prev_fs_watch, new_fs_watch, idx,
                   changed, command, watched_fs, outcome, runs, snaps,
                   snap_last, snap_prev, missed, kept, ever_ran, interval,
                   sleep, events, jfs, pattern, patterns, overflow_checks>>

(* `.build()` on the builder from_pattern returned *)
Build ==
    /\ pc = "from_pattern"
    /\ scanned = Len(pattern)
    /\ patterns' = BuildOk(build(builder))
    /\ pc' = "built"
    /\ UNCHANGED <<explorers, cmd, fs, prev_fs_watch, new_fs_watch, idx,
                   changed, command, watched_fs, outcome, runs, snaps,
                   snap_last, snap_prev, missed, kept, ever_ran, interval,
                   sleep, events, jfs, pattern, scanned, builder,
                   overflow_checks>>

NextBuilder ==
    \/ Character
    \/ Build

SpecBuilder == InitBuilder /\ [][NextBuilder]_vars

---------------------------------------------------------------------------
(* GlobExplorer: construction from an extended pattern, and explore *)

MaxGlobLen == 4

(* std::path::is_separator on a Unix target *)
is_separator(c) == c = "/"

(* glob::PatternToken *)
CharToken(c) == [t |-> "Char", c |-> c, cs |-> {}]

AnyChar == [t |-> "AnyChar", c |-> "", cs |-> {}]

AnySequence == [t |-> "AnySequence", c |-> "", cs |-> {}]

AnyRecursiveSequence == [t |-> "AnyRecursiveSequence", c |-> "", cs |-> {}]

AnyWithin(cs) == [t |-> "AnyWithin", c |-> "", cs |-> cs]

AnyExcept(cs) == [t |-> "AnyExcept", c |-> "", cs |-> cs]

PatternOk(tokens) == [ok |-> TRUE, tokens |-> tokens]

PatternError == [ok |-> FALSE, tokens |-> <<>>]

(* The index of the first ']' of chars at or after from; 0 when none. *)
position_of_close(chars, from) ==
    IF \E k \in from..Len(chars) : chars[k] = "]"
    THEN CHOOSE k \in from..Len(chars) :
             chars[k] = "]" /\ \A j \in from..(k - 1) : chars[j] # "]"
    ELSE 0

(* parse_char_specifiers for specifiers without a '-' range: the           *)
(* characters between the brackets.                                        *)
parse_char_specifiers(chars, from, to) == { chars[k] : k \in from..to }

(* The length of the run of '*' that starts at i. *)
star_run(chars, i) ==
    Cardinality({ k \in i..Len(chars) : \A j \in i..k : chars[j] = "*" })

(* glob::Pattern::new, from character i on with the tokens made so far. *)
RECURSIVE pattern_scan(_, _, _)
pattern_scan(chars, i, tokens) ==
    IF i > Len(chars) THEN PatternOk(tokens)
    ELSE IF chars[i] = "?"
    THEN pattern_scan(chars, i + 1, Append(tokens, AnyChar))
    ELSE IF chars[i] = "*"
    THEN LET count == star_run(chars, i)
             next == i + count
         IN IF count > 2 THEN PatternError
            ELSE IF count = 2
            THEN IF i = 1 \/ is_separator(chars[i - 1])
                 THEN LET more == IF Len(tokens) > 1
                                     /\ tokens[Len(tokens)] = AnyRecursiveSequence
                                  THEN tokens
                                  ELSE Append(tokens, AnyRecursiveSequence)
                      IN IF next <= Len(chars) /\ is_separator(chars[next])
                         THEN pattern_scan(chars, next + 1, more)
                         ELSE IF next > Len(chars)
                         THEN pattern_scan(chars, next, more)
                         ELSE PatternError
                 ELSE PatternError
            ELSE pattern_scan(chars, next, Append(tokens, AnySequence))
    ELSE IF chars[i] = "["
    THEN IF i + 3 <= Len(chars) /\ chars[i + 1] = "!"
         THEN LET k == position_of_close(chars, i + 3)
              IN IF k = 0 THEN PatternError
                 ELSE pattern_scan(chars, k + 1,
                          Append(tokens,
                              AnyExcept(parse_char_specifiers(chars, i + 2, k - 1))))
         ELSE IF i + 2 <= Len(chars) /\ chars[i + 1] # "!"
         THEN LET k == position_of_close(chars, i + 2)
              IN IF k = 0 THEN PatternError
                 ELSE pattern_scan(chars, k + 1,
                          Append(tokens,
                              AnyWithin(parse_char_specifiers(chars, i + 1, k - 1))))
         ELSE PatternError
    ELSE pattern_scan(chars, i + 1, Append(tokens, CharToken(chars[i])))

(* glob::Pattern::new *)
Pattern_new(s) == pattern_scan(s, 1, <<>>)

(* Pattern::matches_from on a file name without separators, from token ti  *)
(* and character ni.                                                       *)
RECURSIVE matches_from(_, _, _, _)
matches_from(tokens, ti, name, ni) ==
    IF ti > Len(tokens) THEN ni > Len(name)
    ELSE LET token == tokens[ti]
         IN IF token.t \in { "AnySequence", "AnyRecursiveSequence" }
            THEN \E k \in ni..(Len(name) + 1) :
                     matches_from(tokens, ti + 1, name, k)
            ELSE /\ ni <= Len(name)
                 /\ CASE token.t = "Char" -> name[ni] = token.c
                      [] token.t = "AnyChar" -> TRUE
                      [] token.t = "AnyWithin" -> name[ni] \in token.cs
                      [] token.t = "AnyExcept" -> name[ni] \notin token.cs
                 /\ matches_from(tokens, ti + 1, name, ni + 1)

(* Pattern::matches *)
matches(tokens, name) == matches_from(tokens, 1, name, 1)

(* pattern_as_str: the pattern has no metacharacter *)
is_literal(tokens) == \A i \in 1..Len(tokens) : tokens[i].t = "Char"

(* The entries of the current directory in the model of the filesystem of  *)
(* the glob explorer; the entry aa is a directory, the others are files.   *)
GlobNames == { <<"a">>, <<"a", "a">>, <<"]">> }

GlobDirs == { <<"a", "a">> }

GlobFilesystems ==
    { [x \in GlobNames |-> IF x \in present THEN 1 ELSE NoEntry] :
      present \in { {}, { <<"a">> }, { <<"a">>, <<"a", "a">> }, GlobNames } }

Exists(filesystem, name) ==
    name \in DOMAIN filesystem /\ filesystem[name] # NoEntry

(* glob::glob(pattern) for a valid relative pattern of one path component: *)
(* the paths the iterator yields.  A pattern without metacharacters is     *)
(* looked up by its metadata; any other is matched against the entries of  *)
(* the current directory, and `**` yields directories only.                *)
glob(s, filesystem) ==
    LET tokens == Pattern_new(s).tokens
    IN IF is_literal(tokens)
       THEN { name \in { s } : Exists(filesystem, name) }
       ELSE { name \in DOMAIN filesystem :
                /\ Exists(filesystem, name)
                /\ matches(tokens, name)
                /\ tokens = << AnyRecursiveSequence >> => name \in GlobDirs }

(* GlobExplorer *)
Glob(glob_patterns) == [kind |-> "glob", patterns |-> glob_patterns]

CliOk(explorer) == [kind |-> "Ok", explorer |-> explorer]

CliPanic == [kind |-> "Panic", explorer |-> Glob(<<>>)]

(* ExtendedGlobPatternBuilder::from_pattern(arg): every builder the       *)
(* iteration orders of the sets of a closed group allow; a panicked one    *)
(* stands for the panic of the call.                                       *)
RECURSIVE from_pattern_builders(_, _, _, _)
from_pattern_builders(s, i, b, checks) ==
    IF b.panicked \/ i > Len(s) THEN { b }
    ELSE UNION { from_pattern_builders(s, i + 1, nb, checks) :
                 nb \in character(b, s[i], checks) }

(* The Vec basic_glob_patterns of build when its loop over the tokens      *)
(* ends: one string for every combination, equal strings included.         *)
RECURSIVE build_list_tokens(_, _)
build_list_tokens(tokens, i) ==
    IF i = 0 THEN << <<>> >>
    ELSE LET before == build_list_tokens(tokens, i - 1)
             token == tokens[i]
             n == Len(token.subs)
         IN IF token.kind = "Literal"
            THEN [k \in 1..Len(before) |-> before[k] \o <<token.c>>]
            ELSE [k \in 1..(Len(before) * n) |->
                     before[((k - 1) \div n) + 1]
                         \o token.subs[((k - 1) % n) + 1]]

build_list(b) == build_list_tokens(b.tokens, Len(b.tokens))

(* The combinations collected into the explorer's Vec as they are *)
collect_as_listed(list) == { list }

(* `basic_glob_patterns.into_iter().collect()` of build into a HashSet,    *)
(* and `.into_iter().collect()` of from_cli_arg from it into the Vec of    *)
(* the explorer: the distinct strings, in the order the set iterates.      *)
collect_through_set(list) == Orders(Range(list))

(* The loop of from_cli_arg over the expanded patterns: no pattern is     *)
(* rejected by Pattern::new                                                *)
some_valid(expanded) == \E p \in expanded : Pattern_new(p).ok

all_valid(expanded) == \A p \in expanded : Pattern_new(p).ok

(* GlobExplorer::from_cli_arg *)
glob_from_cli_arg(arg, checks) ==
    UNION { IF b.panicked THEN { CliPanic }
            ELSE { IF all_valid(Range(list)) THEN CliOk(Glob(list))
                   ELSE CliPanic :
                   list \in collect_through_set(build_list(b)) } :
            b \in from_pattern_builders(arg, 1, builder_new, checks) }

(* Insertion of a set of paths with WatchedFS::find, one after the other. *)
RECURSIVE find_all(_, _, _)
find_all(w, paths, filesystem) ==
    IF paths = {} THEN w
    ELSE LET path == CHOOSE x \in paths : TRUE
         IN find_all(find(w, path, filesystem), paths \ {path}, filesystem)

(* GlobExplorer::explore with one of the patterns only *)
glob_explore_one_pattern(explorer, w, filesystem) ==
    IF Len(explorer.patterns) = 0 THEN w
    ELSE find_all(w, glob(explorer.patterns[1], filesystem), filesystem)

(* GlobExplorer::explore *)
glob_explore(explorer, w, filesystem) ==
    find_all(w, UNION { glob(p, filesystem) : p \in Range(explorer.patterns) },
             filesystem)

(* The characters of the patterns of the glob model, and the invalid       *)
(* alternatives the tests name.                                            *)
GlobChars == { "{", "}", ",", "[", "]", "*", "a" }

ExampleGlobPatterns ==
    { <<"{","a",",","*","*","a","}">>, <<"{","a","*","*",",","a","}">>,
      <<"{","a",",","]","}">>, <<"{","a",",","a","}">>,
      <<"{","a",",","}","{",",","a","}">> }

GlobInputs ==
    UNION { [1..n -> GlobChars] : n \in 0..MaxGlobLen }
    \cup ExampleGlobPatterns

InitGlob ==
    /\ pattern \in GlobInputs
    /\ overflow_checks \in BOOLEAN
    /\ fs \in GlobFilesystems
    /\ explorers = <<>>
    /\ watched_fs = EmptyFS
    /\ pc = "glob_input"
    /\ scanned = 0
    /\ builder = NotCalled
    /\ patterns = NotCalled
    /\ jfs = NotCalled
    /\ cmd = << <<"r">> >>
    /\ \E d \in WatchDurations : interval = d[1] /\ sleep = d[2]
    /\ new_fs_watch = EmptyFS
    /\ prev_fs_watch = EmptyFS
    /\ changed = Unchanged
    /\ command = None
    /\ idx = 1
    /\ outcome = "none"
    /\ runs = 0
    /\ snaps = 0
    /\ snap_last = EmptyFS
    /\ snap_prev = EmptyFS
    /\ missed = {}
    /\ kept = {}
    /\ ever_ran = FALSE
    /\ events = <<>>

(* GlobExplorer::from_cli_arg(pattern) *)
FromCliArg ==
    /\ pc = "glob_input"
    /\ \E r \in glob_from_cli_arg(pattern, overflow_checks) :
          IF r.kind = "Ok"
          THEN /\ explorers' = << r.explorer >>
               /\ patterns' = BuildOk(Range(r.explorer.patterns))
               /\ pc' = "glob_constructed"
          ELSE /\ pc' = "glob_panicked"
               /\ UNCHANGED <<explorers, patterns>>
    /\ UNCHANGED <<cmd, fs, prev_fs_watch, new_fs_watch, idx, changed,
                   command, watched_fs, outcome, runs, snaps, snap_last,
                   snap_prev, missed, kept, ever_ran, interval, sleep,
                   events, jfs, pattern, scanned, builder, overflow_checks>>

(* explorer.explore(&mut watched_fs) on a new WatchedFS *)
GlobExplore ==
    /\ pc = "glob_constructed"
    /\ watched_fs' = glob_explore(explorers[1], new(1), fs)
    /\ pc' = "glob_explored"
    /\ UNCHANGED <<explorers, cmd, fs, prev_fs_watch, new_fs_watch, idx,
                   changed, command, outcome, runs, snaps, snap_last,
                   snap_prev, missed, kept, ever_ran, interval, sleep,
                   events, jfs, pattern, scanned, builder, patterns,
                   overflow_checks>>

NextGlob ==
    \/ FromCliArg
    \/ GlobExplore

SpecGlob == InitGlob /\ [][NextGlob]_vars

---------------------------------------------------------------------------
(* extend_glob_pattern: the expander written as one function *)

(* The locals of extend_glob_pattern before the first character; depth is  *)
(* a signed integer, panicked marks a call that panicked.                  *)
extend_start ==
    [tokens |-> <<>>, depth |-> 0, escaped |-> FALSE, panicked |-> FALSE]

ExtendPanic(st) == [st EXCEPT !.panicked = TRUE]

(* The nested fn push_subpattern_character(tokens, c) *)
extend_push_subpattern_character(st, c) ==
    IF Len(st.tokens) = 0 THEN ExtendPanic(st)
    ELSE LET last == Last(st.tokens)
         IN IF last.kind = "Subpatterns" /\ Len(last.subs) > 0
            THEN [st EXCEPT !.tokens[Len(st.tokens)] = Subpatterns(
                     Front(last.subs) \o << Append(Last(last.subs), c) >>)]
            ELSE ExtendPanic(st)

(* `if depth == 0 { tokens.push(Literal(c)) } else { push_sub.. }` *)
extend_plain(st, c) ==
    IF st.depth = 0
    THEN [st EXCEPT !.tokens = Append(st.tokens, Literal(c))]
    ELSE extend_push_subpattern_character(st, c)

(* The product of the tokens, collected into a HashSet *)
extend_product(st) == build_tokens(st.tokens, Len(st.tokens))

RECURSIVE extend_character(_, _)
RECURSIVE extend_glob_pattern(_, _, _)
RECURSIVE extend_subpatterns(_, _)

(* extend_glob_pattern(subpattern) of the recursive step, from character   *)
(* i on: Ok with the set of patterns, or a panic.                          *)
extend_glob_pattern(s, i, st) ==
    IF st.panicked THEN BuildPanic
    ELSE IF i > Len(s) THEN BuildOk(extend_product(st))
    ELSE extend_glob_pattern(s, i + 1,
                             CHOOSE nst \in extend_character(st, s[i]) : TRUE)

(* The '}' arm at depth 0, the loop over the subpatterns: the lists that   *)
(* can result, each subpattern's HashSet in the order it iterates.         *)
extend_subpatterns(subs, n) ==
    IF n = 0 THEN { [panic |-> FALSE, list |-> <<>>] }
    ELSE LET sub == extend_glob_pattern(subs[n], 1, extend_start)
             before == CHOOSE r \in extend_subpatterns(subs, n - 1) : TRUE
         IN IF sub.kind = "Panic" \/ before.panic
            THEN { [panic |-> TRUE, list |-> <<>>] }
            ELSE { [panic |-> FALSE,
                    list |-> before.list \o SeqOf(sub.set \ {l}) \o <<l>>] :
                   l \in sub.set }

(* One turn of `for c in pattern.chars()`: the locals that can result. *)
extend_character(st, c) ==
    IF st.escaped THEN { extend_plain([st EXCEPT !.escaped = FALSE], c) }
    ELSE IF c = "\\" THEN { extend_plain([st EXCEPT !.escaped = TRUE], c) }
    ELSE IF c = "{"
    THEN LET opened == [st EXCEPT !.depth = st.depth + 1]
         IN IF opened.depth = 1
            THEN { [opened EXCEPT !.tokens =
                       Append(st.tokens, Subpatterns(<< <<>> >>))] }
            ELSE { extend_push_subpattern_character(opened, "{") }
    ELSE IF c = "}"
    THEN LET closed == [st EXCEPT !.depth = st.depth - 1]
         IN IF closed.depth = 0
            THEN IF Len(st.tokens) = 0 THEN { ExtendPanic(closed) }
                 ELSE LET last == Last(st.tokens)
                      IN IF last.kind = "Subpatterns"
                         THEN { IF r.panic THEN ExtendPanic(closed)
                                ELSE [closed EXCEPT !.tokens =
                                         Append(Front(st.tokens),
                                                Subpatterns(r.list))] :
                                r \in extend_subpatterns(last.subs,
                                                         Len(last.subs)) }
                         ELSE { ExtendPanic(closed) }
            ELSE { extend_push_subpattern_character(closed, "}") }
    ELSE IF c = ","
    THEN IF st.depth = 0
         THEN { [st EXCEPT !.tokens = Append(st.tokens, Literal(","))] }
         ELSE IF st.depth = 1
         THEN IF Len(st.tokens) = 0 THEN { ExtendPanic(st) }
              ELSE LET last == Last(st.tokens)
                   IN IF last.kind = "Subpatterns"
                      THEN { [st EXCEPT !.tokens[Len(st.tokens)] =
                                 Subpatterns(Append(last.subs, <<>>))] }
                      ELSE { ExtendPanic(st) }
         ELSE { extend_push_subpattern_character(st, ",") }
    ELSE { extend_plain(st, c) }

(* extend_glob_pattern(pattern): every outcome the iteration orders of     *)
(* the sets of a closed group allow.                                       *)
RECURSIVE extend_outcomes_from(_, _, _)
extend_outcomes_from(s, i, st) ==
    IF st.panicked THEN { BuildPanic }
    ELSE IF i > Len(s) THEN { BuildOk(extend_product(st)) }
    ELSE UNION { extend_outcomes_from(s, i + 1, nst) :
                 nst \in extend_character(st, s[i]) }

extend_glob_pattern_outcomes(s) == extend_outcomes_from(s, 1, extend_start)

(* ExtendedGlobPatternBuilder::from_pattern(pattern).build(): every        *)
(* outcome.                                                                *)
builder_outcomes(s, checks) ==
    { IF b.panicked THEN BuildPanic ELSE BuildOk(build(b)) :
      b \in from_pattern_builders(s, 1, builder_new, checks) }

InitExtend ==
    /\ pattern \in PatternInputs
    /\ overflow_checks \in BOOLEAN
    /\ scanned = 0
    /\ builder = NotCalled
    /\ patterns = NotCalled
    /\ pc = "extend_input"
    /\ jfs = NotCalled
    /\ explorers = <<>>
    /\ cmd = << <<"r">> >>
    /\ \E d \in WatchDurations : interval = d[1] /\ sleep = d[2]
    /\ fs = EmptyFS
    /\ watched_fs = EmptyFS
    /\ new_fs_watch = EmptyFS
    /\ prev_fs_watch = EmptyFS
    /\ changed = Unchanged
    /\ command = None
    /\ idx = 1
    /\ outcome = "none"
    /\ runs = 0
    /\ snaps = 0
    /\ snap_last = EmptyFS
    /\ snap_prev = EmptyFS
    /\ missed = {}
    /\ kept = {}
    /\ ever_ran = FALSE
    /\ events = <<>>

(* extend_glob_pattern(pattern) *)
ExtendGlobPattern ==
    /\ pc = "extend_input"
    /\ patterns' \in extend_glob_pattern_outcomes(pattern)
    /\ pc' = "extended_by_function"
    /\ UNCHANGED <<explorers, cmd, fs, prev_fs_watch, new_fs_watch, idx,
                   changed, command, watched_fs, outcome, runs, snaps,
                   snap_last, snap_prev, missed, kept, ever_ran, interval,
                   sleep, events, jfs, pattern, scanned, builder,
                   overflow_checks>>

(* ExtendedGlobPatternBuilder::from_pattern(pattern).build() *)
FromPatternBuild ==
    /\ pc = "extend_input"
    /\ patterns' \in builder_outcomes(pattern, overflow_checks)
    /\ pc' = "extended_by_builder"
    /\ UNCHANGED <<explorers, cmd, fs, prev_fs_watch, new_fs_watch, idx,
                   changed, command, watched_fs, outcome, runs, snaps,
                   snap_last, snap_prev, missed, kept, ever_ran, interval,
                   sleep, events, jfs, pattern, scanned, builder,
                   overflow_checks>>

NextExtend ==
    \/ ExtendGlobPattern
    \/ FromPatternBuild

SpecExtend == InitExtend /\ [][NextExtend]_vars

---------------------------------------------------------------------------
(* Properties *)

(* The positions of a cycle after its compare, up to its last statement. *)
CycleCompared ==
    {"sleep_interval", "get_command", "run_command", "command_running",
     "sleep_sleep", "assign", "panicked"}

(* The positions at which a cycle is over: its last statement, or the      *)
(* panic that ended the process inside it.                                 *)
CycleOver == {"assign", "panicked"}

(* C1: in every poll cycle the command is run exactly once when the        *)
(* Difference is not Unchanged and not at all when it is Unchanged; no     *)
(* cycle runs it more than once.                                           *)
C1_OncePerChangedCycle ==
    /\ runs <= 1
    /\ pc \in CycleOver =>
          runs = (IF changed.kind = "Unchanged" THEN 0 ELSE 1)

(* C2, as claimed: a path whose change was not the one reported in its     *)
(* cycle is reported by a later cycle.  Stated for the runs in which the   *)
(* filesystem stops changing and the process lives on: in those, a path    *)
(* that differed without being reported is eventually reported.            *)
C2_MissedChangeSurfacesLater ==
    \/ []<><<FsWrite \/ FsDelete>>_vars
    \/ \A x \in WatchPaths :
          [](x \in missed => <>(x \notin missed \/ pc = "panicked"))

(* C2, amended: when several paths changed between two snapshots, the     *)
(* cycle reports one Difference, for one of the changed paths; the other   *)
(* changes go unreported and are absorbed into the baseline, which is the  *)
(* full new snapshot; they are not reported later: a cycle whose snapshot  *)
(* equals the snapshot of the previous cycle yields Unchanged and runs no  *)
(* command, also while changes of other paths have gone unreported.        *)
C2_MissedChangeIsAbsorbed ==
    /\ pc \in CycleCompared =>
          LET differing == Differing(new_fs_watch, snap_prev)
          IN /\ differing # {} =>
                    /\ changed.kind # "Unchanged"
                    /\ changed.path \in differing
                    /\ differing \ {changed.path} \subseteq missed
             /\ differing = {} => (changed = Unchanged /\ runs = 0)
    /\ pc = "explore" => prev_fs_watch = snap_last

C2_Witness ==
    /\ pc = "assign"
    /\ missed # {}
    /\ new_fs_watch = snap_prev
    /\ changed = Unchanged

(* C3: the snapshot taken in a cycle is the baseline of the next cycle,    *)
(* whatever the Difference was and however the command ended: at the head  *)
(* of the loop the baseline is the snapshot completed last, and at the     *)
(* compare it is the snapshot of the previous cycle.                       *)
C3_BaselineIsPreviousSnapshot ==
    /\ pc = "explore" => prev_fs_watch = snap_last
    /\ pc = "compare" => prev_fs_watch = snap_prev

C3_Witness ==
    /\ pc = "compare"
    /\ outcome = "none"
    /\ ever_ran
    /\ changed.kind = "Deleted"
    /\ prev_fs_watch = snap_prev
    /\ prev_fs_watch # new_fs_watch

(* C4: comparing a snapshot with a copy of itself gives Unchanged, for     *)
(* every iteration order.                                                  *)
C4_CompareWithCopyIsUnchanged ==
    (pc = "compare_done" /\ new_fs_watch = prev_fs_watch) =>
        changed = Unchanged

C4_Witness ==
    /\ pc = "compare_done"
    /\ new_fs_watch = prev_fs_watch
    /\ len(new_fs_watch) = Cardinality(ComparePaths)

(* The Difference of a single path x between two snapshots. *)
DifferenceAt(cur, prev, x) ==
    IF x \notin DOMAIN prev THEN New(x, cur[x])
    ELSE IF x \notin DOMAIN cur THEN Deleted(x)
    ELSE Modified(x, cur[x])

(* C5: when the two snapshots differ in exactly one path, compare reports  *)
(* exactly that change (New, Modified with the current mtime, or Deleted), *)
(* whatever unchanged paths they share.                                    *)
C5_SingleChangeIsReported ==
    \A x \in ComparePaths :
        (pc = "compare_done" /\ Differing(new_fs_watch, prev_fs_watch) = {x}) =>
            changed = DifferenceAt(new_fs_watch, prev_fs_watch, x)

C5_Witness ==
    /\ pc = "compare_done"
    /\ Cardinality(Differing(new_fs_watch, prev_fs_watch)) = 1
    /\ len(new_fs_watch) = Cardinality(ComparePaths)
    /\ changed.kind = "Modified"
    /\ changed.mtime < prev_fs_watch[changed.path]

(* The template of the running get_command call, joined. *)
Template == join(cmd, <<" ">>)

(* How often the character c occurs in s. *)
Count(s, c) == Cardinality({ i \in 1..Len(s) : s[i] = c })

(* The positions of s at which a placeholder starts, and those at which    *)
(* one of the two mtime placeholders starts.                               *)
PlaceholderStarts(s) == { i \in 1..Len(s) : target_len_at(s, i) > 0 }

MtimeStarts(s) ==
    { i \in 1..Len(s) :
        \/ HasAt(s, i, <<"$">> \o TargetMtime)
        \/ HasAt(s, i, <<"$", "{">> \o TargetMtime \o <<"}">>) }

(* The value the specification gives the placeholder text m. *)
PlaceholderValue(m, diff) ==
    LET name == trim_matches(m, {"$", "{", "}"})
    IN IF name = TargetDiff THEN DiffWord(diff)
       ELSE IF name = TargetPath THEN diff.path
       ELSE IF diff.kind = "Deleted" THEN m
       ELSE format_mtime(diff.mtime)

(* The command the specification describes for a template s without        *)
(* backslashes, from position i on: every placeholder replaced by its      *)
(* value, every other character kept in place.                             *)
RECURSIVE SubstituteEvery(_, _, _)
SubstituteEvery(s, i, diff) ==
    IF i > Len(s) THEN <<>>
    ELSE IF i \in PlaceholderStarts(s)
    THEN PlaceholderValue(SubSeq(s, i, i + target_len_at(s, i) - 1), diff)
         \o SubstituteEvery(s, i + target_len_at(s, i), diff)
    ELSE <<s[i]>> \o SubstituteEvery(s, i + 1, diff)

(* C6: for a New or Modified Difference and a template without escapes,    *)
(* get_command returns the joined tokens with every placeholder replaced   *)
(* by its value and every other character kept in place, whatever stands   *)
(* before the placeholder.                                                 *)
C6_EveryPlaceholderSubstituted ==
    (/\ pc = "command_done"
     /\ changed.kind \in {"New", "Modified"}
     /\ Count(Template, "\\") = 0) =>
        command = Some(SubstituteEvery(Template, 1, changed))

(* The number of backslashes that stand immediately before position i. *)
BackslashRun(s, i) ==
    Cardinality({ k \in 1..(i - 1) : \A j \in k..(i - 1) : s[j] = "\\" })

(* The placeholders the specification leaves literal: those preceded by    *)
(* an unescaped backslash (an odd run of backslashes), and the mtime       *)
(* placeholders of a Deleted Difference.                                   *)
LiteralStarts(s, diff) ==
    { i \in PlaceholderStarts(s) :
        \/ BackslashRun(s, i) % 2 = 1
        \/ diff.kind = "Deleted" /\ i \in MtimeStarts(s) }

(* A template in which every dollar sign starts a placeholder that stands  *)
(* directly after a backslash.                                             *)
OnlyBackslashedPlaceholders(s) ==
    /\ PlaceholderStarts(s) # {}
    /\ \A i \in 1..Len(s) :
          s[i] = "$" => (i \in PlaceholderStarts(s) /\ BackslashRun(s, i) > 0)

(* C7: a placeholder keeps its text exactly when an unescaped backslash    *)
(* stands before it, and is substituted after an escaped backslash (two    *)
(* backslashes): in a template whose placeholders all follow backslashes,  *)
(* the built command holds one dollar sign per placeholder left literal.   *)
C7_LiteralExactlyWhenEscaped ==
    (/\ pc = "command_done"
     /\ changed.kind # "Unchanged"
     /\ OnlyBackslashedPlaceholders(Template)) =>
        /\ command.kind = "Some"
        /\ Count(command.text, "$") =
              Cardinality(LiteralStarts(Template, changed))

(* C8: for a Deleted Difference, a template without escapes whose          *)
(* placeholders are all $mtime or ${mtime} is built unchanged, and         *)
(* building it is not an error.                                            *)
C8_DeletedKeepsMtimePlaceholder ==
    (/\ pc = "command_done"
     /\ changed.kind = "Deleted"
     /\ Count(Template, "\\") = 0
     /\ MtimeStarts(Template) # {}
     /\ PlaceholderStarts(Template) = MtimeStarts(Template)) =>
        command = Some(Template)

(* C9: nothing is compared and no command runs before the second snapshot  *)
(* is complete, and a New Difference never names a path that has been      *)
(* present ever since watch() started.                                     *)
C9_InitialSnapshotNotCompared ==
    /\ snaps < 2 => (pc \notin CycleCompared /\ runs = 0 /\ ~ever_ran)
    /\ changed.kind = "New" => changed.path \notin kept

C9_Witness ==
    /\ pc = "sleep_interval"
    /\ snaps = 2
    /\ ~ever_ran
    /\ kept # {}
    /\ \A x \in kept : x \in DOMAIN new_fs_watch /\ x \in DOMAIN prev_fs_watch
    /\ changed = Unchanged

(* C10: with an Exact explorer for p as the only explorer and p in no      *)
(* snapshot so far (the previous snapshot is empty and no command has      *)
(* run), a cycle whose snapshot is empty yields Unchanged and goes to      *)
(* sleep, and a cycle whose snapshot holds p yields New for p and goes on  *)
(* to run the command.                                                     *)
C10_ExactPathReportedWhenCreated ==
    (/\ explorers = << Exact(<<"p">>) >>
     /\ ~ever_ran
     /\ pc \in CycleCompared
     /\ snap_prev = EmptyFS) =>
        IF snap_last = EmptyFS
        THEN changed = Unchanged /\ pc \in {"sleep_interval", "assign"}
        ELSE /\ changed = New(<<"p">>, snap_last[<<"p">>])
             /\ pc \in {"get_command", "run_command"}

(* The positions in events of the snapshots and of the sleeps. *)
SnapshotEvents == { i \in 1..Len(events) : events[i].ev = "snapshot" }

SleepEvents == { i \in 1..Len(events) : events[i].ev = "sleep" }

(* C11: a cycle that ends has slept once, as its last step: for interval   *)
(* when its Difference was Unchanged and for sleep when it was not,        *)
(* however the command ended; its only snapshot is its first step, so no   *)
(* snapshot lies between the command and the end of the sleep.             *)
C11_SleepMatchesCycle ==
    pc = "assign" =>
        /\ events[Len(events)] =
              Slept(IF changed.kind = "Unchanged" THEN interval ELSE sleep)
        /\ SleepEvents = {Len(events)}
        /\ SnapshotEvents = {1}

C11_Witness ==
    /\ pc = "assign"
    /\ outcome = "exit_nonzero"
    /\ sleep # interval
    /\ events[Len(events)] = Slept(sleep)

IsPrefix(a, b) == Len(a) <= Len(b) /\ SubSeq(b, 1, Len(a)) = a

(* The steps of a triggered cycle, in order: with a command that ran, and  *)
(* with a command that could not be launched.                              *)
TriggeredOrders ==
    { << Event("snapshot"), Event("compare"), Event("command_start"),
         Event("command_end"), Slept(sleep) >>,
      << Event("snapshot"), Event("compare"), Event("launch_error"),
         Slept(sleep) >> }

(* C12: a triggered cycle does snapshot, compare, command start, command   *)
(* end, sleep, in this order and each once; while the command has not      *)
(* completed the control thread waits for it: it takes no snapshot and     *)
(* starts no second command.                                               *)
C12_CyclesDoNotOverlap ==
    /\ (pc \in CycleCompared /\ changed.kind # "Unchanged") =>
          \E o \in TriggeredOrders : IsPrefix(events, o)
    /\ outcome = "running" =>
          /\ pc = "command_running"
          /\ ~ENABLED Explore
          /\ ~ENABLED RunCommand

C12_Witness ==
    /\ pc = "command_running"
    /\ events = << Event("snapshot"), Event("compare"), Event("command_start") >>
    /\ \E x \in DOMAIN new_fs_watch : fs[x] # new_fs_watch[x]

(* C13: after a failed launch the process lives on: the loop sleeps for    *)
(* sleep, makes the new snapshot the baseline and starts the next cycle.   *)
C13_LaunchFailureIsNotFatal ==
    outcome = "launch_error" =>
        /\ pc \in {"sleep_sleep", "assign", "explore"}
        /\ ENABLED Step
        /\ pc \in {"assign", "explore"} => events[Len(events)] = Slept(sleep)
        /\ pc = "explore" =>
              (prev_fs_watch = new_fs_watch /\ prev_fs_watch = snap_last)

C13_Witness ==
    /\ outcome = "launch_error"
    /\ pc = "explore"
    /\ prev_fs_watch = snap_last
    /\ prev_fs_watch # snap_prev

(* C14: the loop has no terminal state: whatever the filesystem, the       *)
(* command template and the command's outcome, the control thread always   *)
(* has a next step.                                                        *)
C14_LoopHasNoTerminalState == ENABLED Step

(* A positive f32. *)
Positive(x) == x.class = "inf" \/ (x.class = "finite" /\ x.n > 0)

(* C15: JFSWatch::new returns an error when the command is empty, when     *)
(* interval or sleep is not positive, or when there is no explorer, and    *)
(* returns Ok in every other case.                                         *)
C15_NewValidatesArguments ==
    pc = "new_done" =>
        IF \/ Len(cmd) = 0
           \/ ~Positive(interval)
           \/ ~Positive(sleep)
           \/ Len(explorers) = 0
        THEN jfs.kind = "Err"
        ELSE jfs.kind = "Ok"


(* The reading of an extended pattern that the claims about the expander   *)
(* are stated in, taken from the text of the pattern alone.                *)

(* The character at i follows an unescaped backslash. *)
Escaped(s, i) == BackslashRun(s, i) % 2 = 1

OpensAt(s, i) == s[i] = "{" /\ ~Escaped(s, i)

ClosesAt(s, i) == s[i] = "}" /\ ~Escaped(s, i)

(* Groups open after the first i characters. *)
DepthAfter(s, i) ==
    Cardinality({ k \in 1..i : OpensAt(s, k) })
    - Cardinality({ k \in 1..i : ClosesAt(s, k) })

Balanced(s) ==
    /\ \A i \in 1..Len(s) : DepthAfter(s, i) >= 0
    /\ DepthAfter(s, Len(s)) = 0

(* The brace closing the group that opens at the first character. *)
MatchingClose(s) ==
    CHOOSE m \in 2..Len(s) :
        /\ ClosesAt(s, m)
        /\ DepthAfter(s, m) = 0
        /\ \A k \in 1..(m - 1) : DepthAfter(s, k) > 0

(* The alternatives of a group with inside x: x cut at its unescaped       *)
(* commas outside any nested group.                                        *)
Alternatives(x) ==
    LET cuts == {0, Len(x) + 1} \cup
                { i \in 1..Len(x) :
                    x[i] = "," /\ ~Escaped(x, i) /\ DepthAfter(x, i) = 0 }
    IN { SubSeq(x, a + 1, b - 1) :
         <<a, b>> \in { c \in cuts \X cuts :
                          /\ c[1] < c[2]
                          /\ ~\E m \in cuts : c[1] < m /\ m < c[2] } }

(* Full distribution of a balanced pattern: an escaped pair and a plain    *)
(* character stand for themselves, a group for the distributions of its    *)
(* alternatives, and a sequence for the product of its parts.              *)
RECURSIVE Distribute(_)
Distribute(s) ==
    IF Len(s) = 0 THEN { <<>> }
    ELSE IF s[1] = "\\"
    THEN IF Len(s) = 1 THEN { s }
         ELSE { <<s[1], s[2]>> \o t : t \in Distribute(SubSeq(s, 3, Len(s))) }
    ELSE IF s[1] = "{"
    THEN LET m == MatchingClose(s)
         IN { a \o t :
              a \in UNION { Distribute(alt) :
                            alt \in Alternatives(SubSeq(s, 2, m - 1)) },
              t \in Distribute(SubSeq(s, m + 1, Len(s))) }
    ELSE { <<s[1]>> \o t : t \in Distribute(Tail(s)) }

(* C16: for every pattern with balanced braces the expander does not fail  *)
(* and returns exactly the full distribution of its alternation groups,    *)
(* nested to any depth, in sequence order.                                 *)
C16_BalancedPatternFullyDistributed ==
    Balanced(pattern) =>
        /\ pc # "builder_panicked"
        /\ pc = "built" => patterns = BuildOk(Distribute(pattern))

C16_Witness ==
    /\ pc = "built"
    /\ pattern = <<"a","{","b",",","{","c",",","d","}","}">>
    /\ patterns = BuildOk({ <<"a","b">>, <<"a","c">>, <<"a","d">> })

NoBrace(s) == \A i \in 1..Len(s) : s[i] \notin { "{", "}" }

(* C17: for every pattern without a brace character, commas and            *)
(* backslashes included, expansion does not fail and returns exactly the   *)
(* set whose only member is the pattern itself, unchanged.                 *)
C17_NoBracePatternIsItself ==
    NoBrace(pattern) =>
        /\ pc # "builder_panicked"
        /\ pc = "built" => patterns = BuildOk({ pattern })

C17_Witness ==
    /\ pc = "built"
    /\ pattern = <<"a", ",", "\\", ",", "\\">>
    /\ patterns = BuildOk({ pattern })

(* The escaped characters of a pattern, by the position of the character. *)
EscapedAt(s) == { i \in 2..Len(s) : Escaped(s, i) }

(* r holds a backslash followed by c. *)
HasPair(r, c) == \E k \in 1..(Len(r) - 1) : r[k] = "\\" /\ r[k + 1] = c

(* The unescaped commas read at depth 1 since the open group began. *)
SplitsOfOpenGroup(s, n) ==
    LET g == CHOOSE k \in 1..n :
                 /\ OpensAt(s, k) /\ DepthAfter(s, k) = 1
                 /\ \A j \in k..n : DepthAfter(s, j) >= 1
    IN Cardinality({ k \in g..n :
                       s[k] = "," /\ ~Escaped(s, k) /\ DepthAfter(s, k) = 1 })

(* While the builder scans: it is in the escaped state exactly after an    *)
(* unescaped backslash (so an escaped backslash escapes nothing), its      *)
(* depth counts the unescaped braces only, and the open group has one      *)
(* more subpattern than unescaped commas read at depth 1.                  *)
EscapedIsLiteral ==
    pc \in { "from_pattern", "built" } =>
        /\ builder.escaped <=>
               /\ scanned > 0
               /\ pattern[scanned] = "\\"
               /\ ~Escaped(pattern, scanned)
        /\ builder.depth = DepthAfter(pattern, scanned)
        /\ builder.depth = 1 =>
               Len(Last(builder.tokens).subs)
                   = 1 + SplitsOfOpenGroup(pattern, scanned)

(* C18 as stated: a backslash makes the next character a plain literal at  *)
(* every depth (no group opened, closed or split, depth unchanged, an      *)
(* escaped backslash escapes nothing), and the backslash and the escaped   *)
(* character appear in every resulting pattern.                            *)
C18_EscapedPairInEveryPattern ==
    /\ EscapedIsLiteral
    /\ (pc = "built" /\ Balanced(pattern)) =>
           \A i \in EscapedAt(pattern) :
               \A r \in patterns.set : HasPair(r, pattern[i])

(* C18, amended: a backslash makes the next character a plain literal at   *)
(* every depth, and the backslash and the escaped character appear         *)
(* unchanged in some resulting pattern, in every one when the escape is    *)
(* outside all groups (inside a group, only the patterns made from its     *)
(* alternative hold them).                                                 *)
C18_EscapedPairKept ==
    /\ EscapedIsLiteral
    /\ pc = "built" =>
           \A i \in EscapedAt(pattern) :
               /\ \E r \in patterns.set : HasPair(r, pattern[i])
               /\ DepthAfter(pattern, i) = 0 =>
                      \A r \in patterns.set : HasPair(r, pattern[i])

C18_Witness ==
    /\ pc = "built"
    /\ pattern = <<"{", "\\", "}", ",", "}">>
    /\ patterns = BuildOk({ <<"\\", "}">>, <<>> })

(* An unescaped '}' with no group open: it would take the depth below 0. *)
UnmatchedClose(s) ==
    \E i \in 1..Len(s) : ClosesAt(s, i) /\ DepthAfter(s, i) < 0

(* C19: a pattern with an unescaped '}' where no group is open, whatever   *)
(* precedes or follows it, fails to expand: no pattern set is returned.    *)
C19_UnmatchedCloseFails ==
    UnmatchedClose(pattern) => pc # "built" /\ patterns = NotCalled

(* The scan of the pattern ends with a group still open. *)
UnclosedAtEnd(s) == DepthAfter(s, Len(s)) > 0

(* C20: a pattern whose scan ends with an unclosed '{' is never accepted   *)
(* and turned into a pattern set.                                          *)
C20_UnclosedGroupIsRejected ==
    UnclosedAtEnd(pattern) => pc # "built" /\ patterns = NotCalled

(* The paths of cur that are new or have another mtime than in prev. *)
NewOrModified(cur, prev) ==
    { x \in DOMAIN cur : x \notin DOMAIN prev \/ cur[x] # prev[x] }

(* C27: compare returns Deleted{p} only when every entry of current is in  *)
(* previous with an equal mtime and p is a path of previous absent from    *)
(* current; when current holds a new or modified path the result is New    *)
(* or Modified, for every iteration order.                                 *)
C27_DeletedOnlyAfterFullScan ==
    pc = "compare_done" =>
        /\ changed.kind = "Deleted" =>
               /\ NewOrModified(new_fs_watch, prev_fs_watch) = {}
               /\ changed.path \in (DOMAIN prev_fs_watch) \ (DOMAIN new_fs_watch)
        /\ NewOrModified(new_fs_watch, prev_fs_watch) # {} =>
               changed.kind \in { "New", "Modified" }

C27_Witness ==
    /\ pc = "compare_done"
    /\ changed.kind = "Deleted"
    /\ len(new_fs_watch) = 1
    /\ len(prev_fs_watch) = Cardinality(ComparePaths)

(* C28: every Difference compare returns is a true difference, for every   *)
(* pair of snapshots and every iteration order: New{p, m} has p absent     *)
(* from previous and current[p] = m; Modified{p, m} has p in both,         *)
(* current[p] = m and previous[p] different from m; Deleted{p} has p in    *)
(* previous and not in current.                                            *)
C28_DifferenceIsTrue ==
    pc = "compare_done" =>
        /\ changed.kind = "New" =>
               /\ changed.path \notin DOMAIN prev_fs_watch
               /\ changed.path \in DOMAIN new_fs_watch
               /\ new_fs_watch[changed.path] = changed.mtime
        /\ changed.kind = "Modified" =>
               /\ changed.path \in DOMAIN prev_fs_watch
               /\ changed.path \in DOMAIN new_fs_watch
               /\ new_fs_watch[changed.path] = changed.mtime
               /\ prev_fs_watch[changed.path] # changed.mtime
        /\ changed.kind = "Deleted" =>
               /\ changed.path \in DOMAIN prev_fs_watch
               /\ changed.path \notin DOMAIN new_fs_watch

C28_Witness ==
    /\ pc = "compare_done"
    /\ changed.kind = "Modified"
    /\ prev_fs_watch[changed.path] > changed.mtime
    /\ Cardinality(Differing(new_fs_watch, prev_fs_watch)) = Cardinality(ComparePaths)

(* C29: compare returns Unchanged only if the two snapshots have the same  *)
(* paths and the same mtime for every path, so a cycle whose snapshot      *)
(* differs from the baseline yields New, Modified or Deleted and runs the  *)
(* command.                                                                *)
C29_DifferingSnapshotTriggers ==
    /\ (pc = "compare_done" /\ changed = Unchanged) =>
           new_fs_watch = prev_fs_watch
    /\ pc \in CycleCompared =>
           /\ changed = Unchanged => new_fs_watch = prev_fs_watch
           /\ (pc \in CycleOver /\ new_fs_watch # prev_fs_watch) => runs = 1

(* C30: get_command returns a command string and does not panic, for       *)
(* every Difference other than Unchanged and every command template,       *)
(* whatever character stands before a placeholder.                         *)
C30_GetCommandNeverPanics ==
    (pc = "command_done" /\ changed.kind # "Unchanged") =>
        command.kind = "Some"

(* C22: exploring with an Exact explorer raises no error and leaves the    *)
(* snapshot as it was when the metadata of the path cannot be read, and    *)
(* adds exactly the entry of the path, with the mtime read, when it can;   *)
(* every cycle starts from an empty snapshot, so a path that could not be  *)
(* read is absent from that cycle's snapshot only.                         *)
C22_ExactExploreReadsOrSkips ==
    [][Explore =>
        LET path == explorers[idx].path
            start == IF idx = 1 THEN EmptyFS ELSE watched_fs
            result == IF idx < Len(explorers) THEN watched_fs' ELSE snap_last'
        IN /\ pc' # "panicked"
           /\ IF fs[path] = NoEntry
              THEN result = start
              ELSE /\ DOMAIN result = (DOMAIN start) \cup {path}
                   /\ result[path] = fs[path]
                   /\ \A x \in (DOMAIN start) \ {path} : result[x] = start[x]
    ]_vars

(* A cycle whose snapshot lacks p, unreadable now, after a snapshot that   *)
(* held it; q, readable, is in both.                                       *)
C22_Witness ==
    /\ pc = "compare"
    /\ explorers = << Exact(<<"p">>), Exact(<<"q">>) >>
    /\ fs[<<"p">>] = NoEntry
    /\ DOMAIN new_fs_watch = { <<"q">> }
    /\ DOMAIN prev_fs_watch = { <<"p">>, <<"q">> }

(* The paths the explorers of the loop can record. *)
ExplorerPaths == { explorers[i].path : i \in 1..Len(explorers) }

(* C25: a snapshot holds at most one entry per path: recording a path      *)
(* that is already present keeps len() and replaces its mtime with the     *)
(* latest one, so a path found by several explorers in one cycle counts    *)
(* once.                                                                   *)
C25_OneEntryPerPath ==
    /\ [](pc \in LoopPcs =>
            /\ len(watched_fs) <= Cardinality(ExplorerPaths)
            /\ len(new_fs_watch) <= Cardinality(ExplorerPaths)
            /\ len(prev_fs_watch) <= Cardinality(ExplorerPaths))
    /\ [][Explore =>
            LET path == explorers[idx].path
                start == IF idx = 1 THEN EmptyFS ELSE watched_fs
                result == IF idx < Len(explorers) THEN watched_fs'
                          ELSE snap_last'
            IN (path \in DOMAIN start /\ fs[path] # NoEntry) =>
                   /\ len(result) = len(start)
                   /\ result[path] = fs[path]
       ]_vars

(* Both explorers of one cycle found q, the second with a later mtime      *)
(* than the first; the snapshot has one entry.                             *)
C25_Witness ==
    /\ pc = "compare"
    /\ explorers = << Exact(<<"q">>), Exact(<<"q">>) >>
    /\ len(new_fs_watch) = 1
    /\ new_fs_watch[<<"q">>] = MaxMtime

(* C23: a change made to a watched path by the command, or by anyone       *)
(* while it runs or during the sleep after it, and still there at the      *)
(* next snapshot, is detected by the next cycle and triggers the command   *)
(* again: when the cycle after a triggered one starts, the baseline is     *)
(* the snapshot taken before the command started, and once a command has   *)
(* run every cycle whose snapshot differs from the previous snapshot runs  *)
(* the command.                                                            *)
C23_ChangeDuringCommandRetriggers ==
    /\ (pc = "explore" /\ idx = 1 /\ runs = 1) =>
           /\ prev_fs_watch = snap_last
           /\ prev_fs_watch = new_fs_watch
    /\ pc = "compare" => prev_fs_watch = snap_prev
    /\ (ever_ran /\ pc \in CycleOver /\ snap_last # snap_prev) =>
           pc = "assign" /\ runs = 1

(* The command of the cycle before ran and p was modified after that       *)
(* cycle's snapshot; this cycle found the change and is about to run the   *)
(* command again.                                                          *)
C23_Witness ==
    /\ pc = "run_command"
    /\ ever_ran
    /\ runs = 0
    /\ <<"p">> \in DOMAIN prev_fs_watch
    /\ changed = Modified(<<"p">>, MaxMtime)

(* C24: when no sleep value is configured the sleep of the watcher equals  *)
(* the configured interval; when one is configured it is used unchanged,   *)
(* whatever the interval; a missing sleep never makes the construction     *)
(* fail for an interval that is accepted.                                  *)
C24_SleepDefaultsToInterval ==
    pc = "main_done" =>
        /\ jfs.kind = "Ok" =>
               /\ jfs.interval = interval.n
               /\ jfs.sleep = (IF sleep = NoneF32 THEN interval.n
                               ELSE sleep.value.n)
        /\ (/\ sleep = NoneF32
            /\ interval.class = "finite"
            /\ interval.n > 0
            /\ Len(cmd) > 0
            /\ Len(explorers) > 0) => jfs.kind = "Ok"

C24_Witness ==
    /\ pc = "main_done"
    /\ sleep = NoneF32
    /\ interval = Finite(MaxSeconds)
    /\ jfs.kind = "Ok"
    /\ jfs.sleep = MaxSeconds

(* C21: the construction of a Glob explorer succeeds only if every basic   *)
(* pattern of the expansion is valid glob syntax, and the explorer then    *)
(* holds exactly those patterns; if one alternative of the expansion is    *)
(* invalid the construction panics, even when other alternatives are       *)
(* valid.                                                                  *)
C21_InvalidAlternativePanics ==
    /\ pc \in { "glob_constructed", "glob_explored" } =>
           /\ \A p \in patterns.set : Pattern_new(p).ok
           /\ Len(explorers) = 1
           /\ explorers[1].kind = "glob"
           /\ Range(explorers[1].patterns) = patterns.set
    /\ (/\ pc \in { "glob_constructed", "glob_explored", "glob_panicked" }
        /\ Balanced(pattern)
        /\ \E p \in Distribute(pattern) : ~Pattern_new(p).ok) =>
           pc = "glob_panicked" /\ explorers = <<>>

(* {a,**a}: the alternative a is valid, **a is not. *)
C21_Witness ==
    /\ pc = "glob_panicked"
    /\ pattern = <<"{","a",",","*","*","a","}">>
    /\ Pattern_new(<<"a">>).ok
    /\ ~Pattern_new(<<"*","*","a">>).ok
    /\ explorers = <<>>

(* The entries a Glob explorer is to record: the existing entries that     *)
(* glob yields for at least one of the basic patterns.                     *)
GlobMatched(basic_patterns, filesystem) ==
    { name \in GlobNames :
        /\ Exists(filesystem, name)
        /\ \E p \in basic_patterns : name \in glob(p, filesystem) }

(* C26: after a Glob explorer explores, the snapshot holds an entry, with  *)
(* its mtime, for exactly the existing entries (files and directories)     *)
(* that match at least one basic pattern of the expansion, and nothing     *)
(* else.                                                                   *)
C26_GlobExploreFindsMatches ==
    pc = "glob_explored" =>
        watched_fs = [name \in GlobMatched(patterns.set, fs) |-> fs[name]]

(* {a,]} with the file a, the directory aa and the file ] present: a and   *)
(* ] are recorded, aa is not.                                              *)
C26_Witness ==
    /\ pc = "glob_explored"
    /\ pattern = <<"{","a",",","]","}">>
    /\ \A name \in GlobNames : Exists(fs, name)
    /\ DOMAIN watched_fs = { <<"a">>, <<"]">> }

(* A path that occurs neither in a template nor in any substituted word. *)
MarkPath == <<"#">>

(* text with every mark replaced by the path *)
RECURSIVE Unmark(_, _)
Unmark(text, path) ==
    IF Len(text) = 0 THEN <<>>
    ELSE (IF <<text[1]>> = MarkPath THEN path ELSE <<text[1]>>)
         \o Unmark(Tail(text), path)

(* The command built for the same change of the marked path, with the      *)
(* path written where the mark stands.                                     *)
VerbatimCommand(tokens, diff) ==
    LET marked == get_command(tokens, [diff EXCEPT !.path = MarkPath])
    IN IF marked.kind = "Some" THEN Some(Unmark(marked.text, diff.path))
       ELSE marked

(* C31: substitution is a single pass over the template: the text put in   *)
(* place of a placeholder is not scanned again, so a changed path that     *)
(* holds $diff, $path, $mtime or a backslash stands verbatim in the built  *)
(* command, exactly where any other path would stand.                      *)
C31_SubstitutionIsSinglePass ==
    (pc = "command_done" /\ changed.kind # "Unchanged") =>
        command = VerbatimCommand(cmd, changed)

(* "x $path" for the new file named $diff gives "x $diff". *)
C31_Witness ==
    /\ pc = "command_done"
    /\ cmd = << <<"x">>, <<"$","p","a","t","h">> >>
    /\ changed = New(<<"$","d","i","f","f">>, 1)
    /\ command = Some(<<"x"," ","$","d","i","f","f">>)

(* C32: compare(current, previous) does not modify current: whatever the   *)
(* result, current holds the same paths and mtimes after the call, and     *)
(* the snapshot carried forward as the next baseline is the full snapshot  *)
(* that was taken.                                                         *)
C32_CompareLeavesCurrentIntact ==
    /\ [][Compare => new_fs_watch' = new_fs_watch /\ new_fs_watch' = snap_last]_vars
    /\ [][Assign => prev_fs_watch' = snap_last]_vars

(* A Deleted result with an unchanged entry in the snapshot, carried       *)
(* forward whole after the command.                                        *)
C32_Witness ==
    /\ pc = "explore"
    /\ changed.kind = "Deleted"
    /\ prev_fs_watch = snap_last
    /\ len(prev_fs_watch) = 1
    /\ changed.path \notin DOMAIN prev_fs_watch
    /\ ever_ran

(* The step the builder takes on an unescaped comma, by its depth. *)
CommaStep ==
    LET n == Len(builder.tokens)
    IN /\ ~builder'.panicked
       /\ builder'.depth = builder.depth
       /\ builder.depth = 0 =>
              builder'.tokens = Append(builder.tokens, Literal(","))
       /\ builder.depth # 0 =>
              /\ n > 0
              /\ Len(builder'.tokens) = n
              /\ Front(builder'.tokens) = Front(builder.tokens)
              /\ builder.tokens[n].kind = "Subpatterns"
              /\ builder'.tokens[n].kind = "Subpatterns"
       /\ builder.depth = 1 =>
              builder'.tokens[n].subs = Append(builder.tokens[n].subs, <<>>)
       /\ (builder.depth >= 2 \/ builder.depth = UsizeMax) =>
              LET subs == builder.tokens[n].subs
              IN /\ Len(subs) > 0
                 /\ builder'.tokens[n].subs =
                        Front(subs) \o << Append(Last(subs), ",") >>

(* C33: an unescaped comma starts a new alternative only at depth 1; at    *)
(* depth 0 it is a literal of the output, and at depth 2 or more it stays  *)
(* in the text of the alternative and splits only the nested group when    *)
(* that text is expanded: a{b,{c,d}} gives ab, ac and ad.                  *)
C33_CommaSplitsAtDepthOne ==
    /\ [][(Character /\ pattern[scanned + 1] = "," /\ ~builder.escaped)
              => CommaStep]_vars
    /\ [](pc = "built" =>
            /\ pattern = <<"a","{","b",",","{","c",",","d","}","}">> =>
                   patterns.set = { <<"a","b">>, <<"a","c">>, <<"a","d">> }
            /\ pattern = <<"a",",","a">> =>
                   patterns.set = { <<"a",",","a">> })

C33_Witness ==
    /\ pc = "built"
    /\ pattern = <<"a","{","b",",","{","c",",","d","}","}">>
    /\ patterns.set = { <<"a","b">>, <<"a","c">>, <<"a","d">> }

(* C34: the pattern list a Glob explorer holds has no duplicates:          *)
(* combinations of alternatives that give the same string ({a,a},          *)
(* {a,}{,a}) are kept once, every combination is in the list, and explore  *)
(* leaves the list as construction made it.                                *)
C34_PatternListHasNoDuplicates ==
    /\ [](pc \in { "glob_constructed", "glob_explored" } =>
            LET list == explorers[1].patterns
            IN /\ \A i, j \in 1..Len(list) : list[i] = list[j] => i = j
               /\ Balanced(pattern) => Range(list) = Distribute(pattern))
    /\ [][GlobExplore => explorers' = explorers]_vars

(* {a,}{,a}: the combinations a, aa, the empty string and a again; the     *)
(* list holds three patterns.                                              *)
C34_Witness ==
    /\ pc = "glob_explored"
    /\ pattern = <<"{","a",",","}","{",",","a","}">>
    /\ Len(explorers[1].patterns) = 3
    /\ Range(explorers[1].patterns) = { <<"a">>, <<"a","a">>, <<>> }

(* No unescaped '}' among the first n characters closes a group that is    *)
(* not open.                                                               *)
NoUnmatchedCloseIn(s, n) == \A i \in 1..n : DepthAfter(s, i) >= 0

(* C35: while a pattern without unmatched '}' is scanned, after every      *)
(* character the depth is the number of unescaped '{' minus the number of  *)
(* unescaped '}' read so far, and whenever the depth is at least 1 the     *)
(* last token is an alternatives group with at least one alternative; the  *)
(* builder does not panic on such input.                                   *)
C35_ScanKeepsGroupOpen ==
    NoUnmatchedCloseIn(pattern, scanned) =>
        /\ pc # "builder_panicked"
        /\ ~builder.panicked
        /\ builder.depth = DepthAfter(pattern, scanned)
        /\ builder.depth >= 1 =>
               /\ Len(builder.tokens) > 0
               /\ Last(builder.tokens).kind = "Subpatterns"
               /\ Len(Last(builder.tokens).subs) >= 1

(* {{, read: depth 2, and the open group's alternative holds {, *)
C35_Witness ==
    /\ pc = "from_pattern"
    /\ pattern = <<"{","{",",","}","}">>
    /\ scanned = 3
    /\ builder.depth = 2
    /\ Last(builder.tokens) = Subpatterns(<< <<"{",",">> >>)

(* s holds no unescaped brace. *)
NoUnescapedBrace(s) == \A i \in 1..Len(s) : ~OpensAt(s, i) /\ ~ClosesAt(s, i)

(* C36: for every pattern with balanced braces, no string the expander     *)
(* returns holds an unescaped '{' or '}', and expanding a returned string  *)
(* again returns the set of that string alone.                             *)
C36_ExpansionIsIdempotent ==
    (pc = "built" /\ Balanced(pattern)) =>
        \A p \in patterns.set :
            /\ NoUnescapedBrace(p)
            /\ from_pattern(p, 1, builder_new, overflow_checks) = BuildOk({ p })

(* {\{,}: the escaped brace stays escaped in the returned \{ , which      *)
(* expands to itself; the empty string is returned as well.                *)
C36_Witness ==
    /\ pc = "built"
    /\ pattern = <<"{","\\","{",",","}">>
    /\ patterns.set = { <<"\\","{">>, <<>> }
    /\ from_pattern(<<"\\","{">>, 1, builder_new, overflow_checks)
           = BuildOk({ <<"\\","{">> })

(* C37: the function extend_glob_pattern and the builder                   *)
(* (from_pattern(..).build()) agree on every input string: each returns    *)
(* only sets the other can return, and one fails exactly when the other    *)
(* fails.                                                                  *)
C37_ExpandersAgree ==
    /\ pc = "extended_by_function" =>
           patterns \in builder_outcomes(pattern, overflow_checks)
    /\ pc = "extended_by_builder" =>
           patterns \in extend_glob_pattern_outcomes(pattern)

(* The map the explorer at idx has filled when it returns: the snapshot    *)
(* itself when it is the last of the list.                                 *)
ExploredSoFar == IF idx < Len(explorers) THEN watched_fs' ELSE snap_last'

(* C38: every snapshot, the initial one included, is built from an empty   *)
(* map by running every explorer of the list once, in the order of the     *)
(* list; nothing of an earlier snapshot is carried into it, so a path no   *)
(* explorer finds again is absent from the new snapshot.                   *)
C38_SnapshotBuiltFromEmpty ==
    /\ [](idx \in 1..Len(explorers))
    /\ [][Explore =>
            /\ ExploredSoFar =
                   explorer_explore(explorers[idx],
                                    IF idx = 1 THEN EmptyFS ELSE watched_fs, fs)
            /\ idx' = IF idx < Len(explorers) THEN idx + 1 ELSE 1
            /\ idx < Len(explorers) => pc' = pc
            /\ idx = Len(explorers) =>
                   /\ pc = "explore_initial" =>
                          pc' = "sleep_initial" /\ prev_fs_watch' = snap_last'
                   /\ pc = "explore" =>
                          pc' = "compare" /\ new_fs_watch' = snap_last'
                   /\ \A x \in DOMAIN snap_last' :
                          \E i \in 1..Len(explorers) : explorers[i].path = x
                   /\ \A x \in DOMAIN snap_last :
                          (/\ fs[x] = NoEntry
                           /\ idx > 1 => x \notin DOMAIN watched_fs)
                              => x \notin DOMAIN snap_last'
      ]_vars
    /\ [][idx' # idx => Explore]_vars

(* Two explorers, p and q both in the baseline; p is gone when the next    *)
(* snapshot is taken, which holds q alone.                                 *)
C38_Witness ==
    /\ pc = "compare"
    /\ Len(explorers) = 2
    /\ DOMAIN prev_fs_watch = { <<"p">>, <<"q">> }
    /\ DOMAIN new_fs_watch = { <<"q">> }
    /\ new_fs_watch = snap_last

=============================================================================
